---- MODULE Spec2Model ----
(***************************************************************************)
(* A model of mpicxx::info (include/mpicxx/info/info.hpp): the wrapper     *)
(* around an MPI_Info handle, its ownership state (info_, is_freeable_),   *)
(* its string_proxy and its element operations.  The MPI library is the    *)
(* environment: a table from handles to ordered lists of [key, value]      *)
(* pairs whose order is unspecified after every MPI_Info_set and           *)
(* MPI_Info_delete.                                                        *)
(***************************************************************************)
EXTENDS Integers, Sequences, FiniteSets, TLC

\* ------------------------------------------------------------------------
\* Bounds of the model
\* ------------------------------------------------------------------------
\* number of info objects the program declares besides info::env
MaxObj == 2
\* number of MPI_Info handles the MPI library can hand out
MaxHandles == 2
\* longest initializer list passed to a constructor or an assignment
MaxIlist == 2
\* number of bits of an int; std::ptrdiff_t has twice as many
IntBits == 3

\* largest key / value size (terminator included) the MPI library accepts
MPI_MAX_INFO_KEY == 3
MPI_MAX_INFO_VAL == 3

\* ------------------------------------------------------------------------
\* Constants of the program and of mpi.h
\* ------------------------------------------------------------------------
MPI_INFO_NULL == 0
MPI_INFO_ENV == 1
\* the slot of the static object info::env
env == 0

\* the handles MPI_Info_create and MPI_Info_dup can return
Pool == (MPI_INFO_ENV + 1)..(MPI_INFO_ENV + MaxHandles)
Handles == {MPI_INFO_ENV} \cup Pool
\* the info objects of the program: the ones it declares, and info::env
Objs == 1..MaxObj
AllObjs == {env} \cup Objs

\* the string of n characters c
RECURSIVE Repeat(_, _)
Repeat(c, n) == IF n = 0 THEN "" ELSE c \o Repeat(c, n - 1)
\* keys and values the program uses, and one key and one value that exceed the size limits
Keys == {"a", "b"}
Vals == {"1", "2"}
TooLongKey == Repeat("k", MPI_MAX_INFO_KEY)
TooLongVal == Repeat("v", MPI_MAX_INFO_VAL)
KeyArgs == Keys \cup {TooLongKey}
ValArgs == Vals \cup {TooLongVal}
\* the pairs an initializer list is built from
IlistPairs == {<<"a", "1">>, <<"b", "2">>, <<"a", "2">>, <<TooLongKey, "1">>, <<"a", TooLongVal>>}
Ilists == UNION {[1..n -> IlistPairs] : n \in 0..MaxIlist}

VARIABLES
    objs,       \* objs[o]: the members info_ and is_freeable_ of object o, and whether o is alive
    allocated,  \* the handles of the pool that are allocated and not yet freed
    store,      \* store[h]: the [key, value]-pairs of handle h, in MPI_Info_get_nthkey order
    calls,      \* the MPI calls the last operation issued, in order
    last,       \* the last operation: its name, the object it was called on, its arguments,
                \* and the members of every object when it was called
    result,     \* what the last operation returned (or how it failed)
    pc          \* "run", or "aborted" once an MPICXX_ASSERT has failed

vars == <<objs, allocated, store, calls, last, result, pc>>

\* ------------------------------------------------------------------------
\* Sequences of [key, value]-pairs
\* ------------------------------------------------------------------------
HasKey(s, k) == \E i \in 1..Len(s) : s[i][1] = k
PosOf(s, k) == CHOOSE i \in 1..Len(s) : s[i][1] = k
ValueOf(s, k) == s[PosOf(s, k)][2]
KeySet(s) == {s[i][1] : i \in 1..Len(s)}
Entries(s) == {s[i] : i \in 1..Len(s)}
RemoveAt(s, i) == [j \in 1..(Len(s) - 1) |-> IF j < i THEN s[j] ELSE s[j + 1]]
\* every reordering of s
Reorderings(s) ==
    {[i \in 1..Len(s) |-> s[p[i]]] :
        p \in {q \in [1..Len(s) -> 1..Len(s)] : \A i, j \in 1..Len(s) : q[i] = q[j] => i = j}}

\* ------------------------------------------------------------------------
\* The MPI library, on the pairs s of one handle
\* ------------------------------------------------------------------------
\* MPI_Info_set: adds or overwrites; the numbering of the keys afterwards is unspecified
MPI_Info_set(s, k, v) ==
    Reorderings(IF HasKey(s, k)
                THEN [i \in 1..Len(s) |-> IF s[i][1] = k THEN <<k, v>> ELSE s[i]]
                ELSE Append(s, <<k, v>>))
\* MPI_Info_delete of a key that is present; the numbering afterwards is unspecified
MPI_Info_delete(s, k) == Reorderings(RemoveAt(s, PosOf(s, k)))
MPI_Info_get_nkeys(s) == Len(s)
MPI_Info_get_nthkey(s, n) == s[n + 1][1]
MPI_Info_get_valuelen(s, k) ==
    IF HasKey(s, k) THEN [flag |-> TRUE, valuelen |-> Len(ValueOf(s, k))]
    ELSE [flag |-> FALSE, valuelen |-> 0]
MPI_Info_get(s, k) == ValueOf(s, k)
\* MPI_Info_dup of handle h, given the allocated handles al and their pairs st.
\* A handle that has been freed refers to nothing: duplicating it is undefined,
\* and the library may reject the call, or read what the handle held when it was
\* freed (stale), or read nothing.
MPI_Info_dup(h, al, st, stale) ==
    IF h = MPI_INFO_ENV \/ h \in al
    THEN {[error |-> FALSE, s |-> st[h]]}
    ELSE {[error |-> TRUE, s |-> <<>>], [error |-> FALSE, s |-> stale], [error |-> FALSE, s |-> <<>>]}

\* ------------------------------------------------------------------------
\* Info objects
\* ------------------------------------------------------------------------
Object(h, f) == [live |-> TRUE, info_ |-> h, is_freeable_ |-> f]
NoObject == [live |-> FALSE, info_ |-> MPI_INFO_NULL, is_freeable_ |-> FALSE]
\* an MPICXX_ASSERT that fails ends the process
AssertFailed == [kind |-> "abort"]
\* an MPI call the library rejects ends the process too (MPI_ERRORS_ARE_FATAL)
MPIError == [kind |-> "MPI error"]
Void == [kind |-> "void"]

\* one step of the program: the operation op on object self with arguments args
Step(op, self, args, objs2, allocated2, store2, cs, res) ==
    /\ objs' = objs2
    /\ allocated' = allocated2
    /\ store' = store2
    /\ calls' = cs
    /\ last' = [op |-> op, self |-> self, args |-> args, before |-> objs]
    /\ result' = res
    /\ pc' = IF res \in {AssertFailed, MPIError} THEN "aborted" ELSE "run"

\* an assertion that fails before anything was done
Abort(op, self, args) == Step(op, self, args, objs, allocated, store, <<>>, AssertFailed)

Init ==
    /\ objs = [o \in AllObjs |-> IF o = env THEN Object(MPI_INFO_ENV, FALSE) ELSE NoObject]
    /\ allocated = {}
    /\ store = [h \in Handles |-> IF h = MPI_INFO_ENV THEN << <<"a", "1">> >> ELSE <<>>]
    /\ calls = <<>>
    /\ last = [op |-> "main", self |-> env, args |-> <<>>,
               before |-> [o \in AllObjs |-> NoObject]]
    /\ result = Void
    /\ pc = "run"

\* ------------------------------------------------------------------------
\* Construction and destruction
\* ------------------------------------------------------------------------
\* info() that leaves is_freeable_ false
info_default_not_freeable(o) ==
    /\ pc = "run"
    /\ ~objs[o].live
    /\ \E h \in Pool \ allocated :
        Step("info()", o, <<>>,
             [objs EXCEPT ![o] = Object(h, FALSE)],
             allocated \cup {h},
             [store EXCEPT ![h] = <<>>],
             << <<"MPI_Info_create", h>> >>, Void)

\* info(): info.hpp 597-600
info_default(o) ==
    /\ pc = "run"
    /\ ~objs[o].live
    /\ \E h \in Pool \ allocated :
        Step("info()", o, <<>>,
             [objs EXCEPT ![o] = Object(h, TRUE)],
             allocated \cup {h},
             [store EXCEPT ![h] = <<>>],
             << <<"MPI_Info_create", h>> >>, Void)

\* info(const info&) that copies the handle instead of duplicating it
info_copy_shallow(o, other) ==
    /\ pc = "run"
    /\ ~objs[o].live
    /\ objs[other].live
    /\ IF objs[other].info_ = MPI_INFO_NULL
       THEN Abort("info(const info&)", o, <<other>>)
       ELSE Step("info(const info&)", o, <<other>>,
                 [objs EXCEPT ![o] = Object(objs[other].info_, TRUE)],
                 allocated, store, <<>>, Void)

\* info(const info& other): info.hpp 616-620
info_copy(o, other) ==
    /\ pc = "run"
    /\ ~objs[o].live
    /\ objs[other].live
    /\ IF objs[other].info_ = MPI_INFO_NULL
       THEN Abort("info(const info&)", o, <<other>>)
       ELSE \E h \in Pool \ allocated :
            \E d \in MPI_Info_dup(objs[other].info_, allocated, store, <<>>) :
            IF d.error
            THEN Step("info(const info&)", o, <<other>>, objs, allocated, store,
                      << <<"MPI_Info_dup", objs[other].info_, MPI_INFO_NULL>> >>, MPIError)
            ELSE Step("info(const info&)", o, <<other>>,
                      [objs EXCEPT ![o] = Object(h, TRUE)],
                      allocated \cup {h},
                      [store EXCEPT ![h] = d.s],
                      << <<"MPI_Info_dup", objs[other].info_, h>> >>, Void)

\* info(info&&) that leaves other.info_ as it was
info_move_keeps_handle(o, other) ==
    /\ pc = "run"
    /\ ~objs[o].live
    /\ objs[other].live
    /\ Step("info(info&&)", o, <<other>>,
            [objs EXCEPT ![o] = Object(objs[other].info_, objs[other].is_freeable_),
                         ![other] = Object(objs[other].info_, FALSE)],
            allocated, store, <<>>, Void)

\* info(info&&) that leaves other.is_freeable_ as it was
info_move_keeps_flag(o, other) ==
    /\ pc = "run"
    /\ ~objs[o].live
    /\ objs[other].live
    /\ Step("info(info&&)", o, <<other>>,
            [objs EXCEPT ![o] = Object(objs[other].info_, objs[other].is_freeable_),
                         ![other] = Object(MPI_INFO_NULL, objs[other].is_freeable_)],
            allocated, store, <<>>, Void)

\* info(info&& other): info.hpp 630-634
info_move(o, other) ==
    /\ pc = "run"
    /\ ~objs[o].live
    /\ objs[other].live
    /\ Step("info(info&&)", o, <<other>>,
            [objs EXCEPT ![o] = Object(objs[other].info_, objs[other].is_freeable_),
                         ![other] = Object(MPI_INFO_NULL, FALSE)],
            allocated, store, <<>>, Void)

\* info(MPI_Info, bool) without the assertion on MPI_INFO_ENV
info_wrap_env_unchecked(o, other, is_freeable) ==
    /\ pc = "run"
    /\ ~objs[o].live
    /\ IF other = MPI_INFO_NULL /\ is_freeable
       THEN Abort("info(MPI_Info,bool)", o, <<other, is_freeable>>)
       ELSE Step("info(MPI_Info,bool)", o, <<other, is_freeable>>,
                 [objs EXCEPT ![o] = Object(other, is_freeable)],
                 allocated, store, <<>>, Void)

\* info(MPI_Info, bool) without the assertion on MPI_INFO_NULL
info_wrap_null_unchecked(o, other, is_freeable) ==
    /\ pc = "run"
    /\ ~objs[o].live
    /\ IF other = MPI_INFO_ENV /\ is_freeable
       THEN Abort("info(MPI_Info,bool)", o, <<other, is_freeable>>)
       ELSE Step("info(MPI_Info,bool)", o, <<other, is_freeable>>,
                 [objs EXCEPT ![o] = Object(other, is_freeable)],
                 allocated, store, <<>>, Void)

\* info(MPI_Info other, bool is_freeable): info.hpp 722-725
info_wrap(o, other, is_freeable) ==
    /\ pc = "run"
    /\ ~objs[o].live
    /\ IF \/ (other = MPI_INFO_NULL /\ is_freeable)
          \/ (other = MPI_INFO_ENV /\ is_freeable)
       THEN Abort("info(MPI_Info,bool)", o, <<other, is_freeable>>)
       ELSE Step("info(MPI_Info,bool)", o, <<other, is_freeable>>,
                 [objs EXCEPT ![o] = Object(other, is_freeable)],
                 allocated, store, <<>>, Void)

\* ~info() that does not look at is_freeable_
dtor_ignores_flag(o) ==
    /\ pc = "run"
    /\ objs[o].live
    /\ IF objs[o].info_ # MPI_INFO_NULL
       THEN Step("~info", o, <<>>,
                 [objs EXCEPT ![o] = NoObject],
                 allocated \ {objs[o].info_},
                 [store EXCEPT ![objs[o].info_] = <<>>],
                 << <<"MPI_Info_free", objs[o].info_>> >>, Void)
       ELSE Step("~info", o, <<>>,
                 [objs EXCEPT ![o] = NoObject],
                 allocated, store, <<>>, Void)

\* ~info(): info.hpp 744-748
dtor(o) ==
    /\ pc = "run"
    /\ objs[o].live
    /\ IF objs[o].is_freeable_ /\ objs[o].info_ # MPI_INFO_NULL
       THEN Step("~info", o, <<>>,
                 [objs EXCEPT ![o] = NoObject],
                 allocated \ {objs[o].info_},
                 [store EXCEPT ![objs[o].info_] = <<>>],
                 << <<"MPI_Info_free", objs[o].info_>> >>, Void)
       ELSE Step("~info", o, <<>>,
                 [objs EXCEPT ![o] = NoObject],
                 allocated, store, <<>>, Void)

\* ------------------------------------------------------------------------
\* Initializer lists and ranges
\* ------------------------------------------------------------------------
\* insert_or_assign(first, last) that stops after the first pair of the range
insert_or_assign_loop_first_only(h, s, il) ==
    IF il = <<>> THEN {[s |-> s, calls |-> <<>>, ok |-> TRUE]}
    ELSE {[s |-> s2, calls |-> << <<"MPI_Info_set", h, il[1][1], il[1][2]>> >>, ok |-> TRUE]
          : s2 \in MPI_Info_set(s, il[1][1], il[1][2])}

\* insert_or_assign(first, last) on handle h holding s: info.hpp 1444-1458.
\* The outcomes of the loop: the pairs left, the calls issued, and whether
\* every assertion held (ok); a failed assertion ends the loop at once.
RECURSIVE insert_or_assign_loop(_, _, _)
insert_or_assign_loop(h, s, il) ==
    IF il = <<>> THEN {[s |-> s, calls |-> <<>>, ok |-> TRUE]}
    ELSE IF ~(Len(il[1][1]) < MPI_MAX_INFO_KEY) \/ ~(Len(il[1][2]) < MPI_MAX_INFO_VAL)
    THEN {[s |-> s, calls |-> <<>>, ok |-> FALSE]}
    ELSE UNION {
        {[s |-> r.s,
          calls |-> << <<"MPI_Info_set", h, il[1][1], il[1][2]>> >> \o r.calls,
          ok |-> r.ok] : r \in insert_or_assign_loop(h, s2, Tail(il))}
        : s2 \in MPI_Info_set(s, il[1][1], il[1][2])}

\* info(std::initializer_list<value_type> init): info.hpp 705-709
info_ilist(o, init) ==
    /\ pc = "run"
    /\ ~objs[o].live
    /\ \E h \in Pool \ allocated :
       \E r \in insert_or_assign_loop(h, <<>>, init) :
        Step("info(ilist)", o, <<init>>,
             [objs EXCEPT ![o] = Object(h, TRUE)],
             allocated \cup {h},
             [store EXCEPT ![h] = r.s],
             << <<"MPI_Info_create", h>> >> \o r.calls,
             IF r.ok THEN Void ELSE AssertFailed)

\* info(InputIter first, InputIter last): info.hpp 672-677
info_range(o, init) ==
    /\ pc = "run"
    /\ ~objs[o].live
    /\ \E h \in Pool \ allocated :
       \E r \in insert_or_assign_loop(h, <<>>, init) :
        Step("info(first,last)", o, <<init>>,
             [objs EXCEPT ![o] = Object(h, TRUE)],
             allocated \cup {h},
             [store EXCEPT ![h] = r.s],
             << <<"MPI_Info_create", h>> >> \o r.calls,
             IF r.ok THEN Void ELSE AssertFailed)

\* ------------------------------------------------------------------------
\* Assignment and swap
\* ------------------------------------------------------------------------
\* operator=(const info&) that takes over the handle of rhs instead of duplicating it
assign_copy_shares(o, rhs) ==
    /\ pc = "run"
    /\ objs[o].live
    /\ objs[rhs].live
    /\ IF objs[rhs].info_ = MPI_INFO_NULL
       THEN Abort("operator=(const info&)", o, <<rhs>>)
       ELSE IF o = rhs
       THEN Step("operator=(const info&)", o, <<rhs>>, objs, allocated, store, <<>>, Void)
       ELSE LET old == objs[o].info_
                frees == objs[o].is_freeable_ /\ old # MPI_INFO_NULL
            IN  Step("operator=(const info&)", o, <<rhs>>,
                     [objs EXCEPT ![o] = Object(objs[rhs].info_, TRUE)],
                     IF frees THEN allocated \ {old} ELSE allocated,
                     IF frees THEN [store EXCEPT ![old] = <<>>] ELSE store,
                     IF frees THEN << <<"MPI_Info_free", old>> >> ELSE <<>>, Void)

\* info& operator=(const info& rhs): info.hpp 771-785
assign_copy(o, rhs) ==
    /\ pc = "run"
    /\ objs[o].live
    /\ objs[rhs].live
    /\ IF objs[rhs].info_ = MPI_INFO_NULL
       THEN Abort("operator=(const info&)", o, <<rhs>>)
       ELSE IF o = rhs
       THEN Step("operator=(const info&)", o, <<rhs>>, objs, allocated, store, <<>>, Void)
       ELSE LET old == objs[o].info_
                frees == objs[o].is_freeable_ /\ old # MPI_INFO_NULL
                al1 == IF frees THEN allocated \ {old} ELSE allocated
                st1 == IF frees THEN [store EXCEPT ![old] = <<>>] ELSE store
                cs1 == IF frees THEN << <<"MPI_Info_free", old>> >> ELSE <<>>
            IN  \E h \in Pool \ al1 :
                \E d \in MPI_Info_dup(objs[rhs].info_, al1, st1, store[objs[rhs].info_]) :
                IF d.error
                THEN Step("operator=(const info&)", o, <<rhs>>,
                          \* MPI_Info_free(&info_) has set info_ to MPI_INFO_NULL
                          IF frees THEN [objs EXCEPT ![o].info_ = MPI_INFO_NULL] ELSE objs,
                          al1, st1,
                          cs1 \o << <<"MPI_Info_dup", objs[rhs].info_, MPI_INFO_NULL>> >>, MPIError)
                ELSE Step("operator=(const info&)", o, <<rhs>>,
                          [objs EXCEPT ![o] = Object(h, TRUE)],
                          al1 \cup {h},
                          [st1 EXCEPT ![h] = d.s],
                          cs1 \o << <<"MPI_Info_dup", objs[rhs].info_, h>> >>, Void)

\* operator=(info&&) that frees without looking at is_freeable_
assign_move_ignores_flag(o, rhs) ==
    /\ pc = "run"
    /\ objs[o].live
    /\ objs[rhs].live
    /\ LET old == objs[o].info_
           frees == old # MPI_INFO_NULL
           o1 == IF frees THEN [objs EXCEPT ![o].info_ = MPI_INFO_NULL] ELSE objs
           o2 == [o1 EXCEPT ![o].info_ = o1[rhs].info_]
           o3 == [o2 EXCEPT ![o].is_freeable_ = o2[rhs].is_freeable_]
           o4 == [o3 EXCEPT ![rhs].info_ = MPI_INFO_NULL]
           o5 == [o4 EXCEPT ![rhs].is_freeable_ = FALSE]
       IN  Step("operator=(info&&)", o, <<rhs>>, o5,
                IF frees THEN allocated \ {old} ELSE allocated,
                IF frees THEN [store EXCEPT ![old] = <<>>] ELSE store,
                IF frees THEN << <<"MPI_Info_free", old>> >> ELSE <<>>, Void)

\* info& operator=(info&& rhs): info.hpp 801-813.  The statements are applied
\* operator=(info&&) that frees the handle it takes over instead of its own
assign_move_frees_taken(o, rhs) ==
    /\ pc = "run"
    /\ objs[o].live
    /\ objs[rhs].live
    /\ LET old == objs[rhs].info_
           frees == objs[rhs].is_freeable_ /\ old # MPI_INFO_NULL
           o2 == [objs EXCEPT ![o].info_ = objs[rhs].info_]
           o3 == [o2 EXCEPT ![o].is_freeable_ = o2[rhs].is_freeable_]
           o4 == [o3 EXCEPT ![rhs].info_ = MPI_INFO_NULL]
           o5 == [o4 EXCEPT ![rhs].is_freeable_ = FALSE]
       IN  Step("operator=(info&&)", o, <<rhs>>, o5,
                IF frees THEN allocated \ {old} ELSE allocated,
                IF frees THEN [store EXCEPT ![old] = <<>>] ELSE store,
                IF frees THEN << <<"MPI_Info_free", old>> >> ELSE <<>>, Void)

\* one after the other, so that rhs may be *this.
assign_move(o, rhs) ==
    /\ pc = "run"
    /\ objs[o].live
    /\ objs[rhs].live
    /\ LET old == objs[o].info_
           frees == objs[o].is_freeable_ /\ old # MPI_INFO_NULL
           \* MPI_Info_free(&info_) sets info_ to MPI_INFO_NULL
           o1 == IF frees THEN [objs EXCEPT ![o].info_ = MPI_INFO_NULL] ELSE objs
           o2 == [o1 EXCEPT ![o].info_ = o1[rhs].info_]
           o3 == [o2 EXCEPT ![o].is_freeable_ = o2[rhs].is_freeable_]
           o4 == [o3 EXCEPT ![rhs].info_ = MPI_INFO_NULL]
           o5 == [o4 EXCEPT ![rhs].is_freeable_ = FALSE]
       IN  Step("operator=(info&&)", o, <<rhs>>, o5,
                IF frees THEN allocated \ {old} ELSE allocated,
                IF frees THEN [store EXCEPT ![old] = <<>>] ELSE store,
                IF frees THEN << <<"MPI_Info_free", old>> >> ELSE <<>>, Void)

\* info& operator=(std::initializer_list<value_type> ilist): info.hpp 833-843
assign_ilist(o, ilist) ==
    /\ pc = "run"
    /\ objs[o].live
    /\ LET old == objs[o].info_
           frees == objs[o].is_freeable_ /\ old # MPI_INFO_NULL
           al1 == IF frees THEN allocated \ {old} ELSE allocated
           st1 == IF frees THEN [store EXCEPT ![old] = <<>>] ELSE store
           cs1 == IF frees THEN << <<"MPI_Info_free", old>> >> ELSE <<>>
       IN  \E h \in Pool \ al1 :
           \E r \in insert_or_assign_loop(h, <<>>, ilist) :
            Step("operator=(ilist)", o, <<ilist>>,
                 [objs EXCEPT ![o].info_ = h],
                 al1 \cup {h},
                 [st1 EXCEPT ![h] = r.s],
                 cs1 \o << <<"MPI_Info_create", h>> >> \o r.calls,
                 IF r.ok THEN Void ELSE AssertFailed)

\* swap that exchanges the handles and leaves each is_freeable_ where it was
swap_handles_only(o, other) ==
    /\ pc = "run"
    /\ objs[o].live
    /\ objs[other].live
    /\ Step("swap", o, <<other>>,
            [objs EXCEPT ![o].info_ = objs[other].info_, ![other].info_ = objs[o].info_],
            allocated, store, <<>>, Void)

\* void swap(info& other): info.hpp 1659-1663
swap(o, other) ==
    /\ pc = "run"
    /\ objs[o].live
    /\ objs[other].live
    /\ Step("swap", o, <<other>>,
            [objs EXCEPT ![o] = objs[other], ![other] = objs[o]],
            allocated, store, <<>>, Void)

\* friend void swap(info& lhs, info& rhs): info.hpp 2135, calls lhs.swap(rhs)
swap_free(lhs, rhs) ==
    /\ pc = "run"
    /\ objs[lhs].live
    /\ objs[rhs].live
    /\ Step("swap(info&,info&)", lhs, <<rhs>>,
            [objs EXCEPT ![lhs] = objs[rhs], ![rhs] = objs[lhs]],
            allocated, store, <<>>, Void)

\* the slot of the temporary that std::swap declares
tmp == MaxObj + 1

\* l = std::move(r) on the wrappers w: info.hpp 801-813, statement by statement;
\* freed is the handle passed to MPI_Info_free, if any
move_assigned(w, l, r) ==
    LET old == w[l].info_
        frees == w[l].is_freeable_ /\ old # MPI_INFO_NULL
        o1 == IF frees THEN [w EXCEPT ![l].info_ = MPI_INFO_NULL] ELSE w
        o2 == [o1 EXCEPT ![l].info_ = o1[r].info_]
        o3 == [o2 EXCEPT ![l].is_freeable_ = o2[r].is_freeable_]
        o4 == [o3 EXCEPT ![r].info_ = MPI_INFO_NULL]
        o5 == [o4 EXCEPT ![r].is_freeable_ = FALSE]
    IN  [w |-> o5, freed |-> IF frees THEN <<old>> ELSE <<>>]

\* std::swap(a, b) of the tests (swap.cpp 26, 60, 73, 96), the generic one:
\* info tmp(std::move(a)); a = std::move(b); b = std::move(tmp); and tmp is destroyed
std_swap(a, b) ==
    /\ pc = "run"
    /\ objs[a].live
    /\ objs[b].live
    /\ LET w0 == [o \in AllObjs \cup {tmp} |-> IF o = tmp THEN NoObject ELSE objs[o]]
           \* info(info&&): info.hpp 630-634
           w1 == [w0 EXCEPT ![tmp] = Object(w0[a].info_, w0[a].is_freeable_),
                            ![a] = Object(MPI_INFO_NULL, FALSE)]
           m2 == move_assigned(w1, a, b)
           m3 == move_assigned(m2.w, b, tmp)
           \* ~info(): info.hpp 744-748
           t == m3.w[tmp]
           freed == m2.freed \o m3.freed
                    \o (IF t.is_freeable_ /\ t.info_ # MPI_INFO_NULL THEN <<t.info_>> ELSE <<>>)
           gone == {freed[i] : i \in 1..Len(freed)}
       IN  Step("std::swap", a, <<b>>,
                [o \in AllObjs |-> m3.w[o]],
                allocated \ gone,
                [h \in DOMAIN store |-> IF h \in gone THEN <<>> ELSE store[h]],
                [i \in 1..Len(freed) |-> <<"MPI_Info_free", freed[i]>>],
                Void)

\* ------------------------------------------------------------------------
\* Element access and modifiers
\* ------------------------------------------------------------------------
\* (*this)[key] = value: operator[] (info.hpp 1230-1238) and then
\* string_proxy::operator= (info.hpp 78-84)
subscript_assign(o, key, value) ==
    /\ pc = "run"
    /\ objs[o].live
    /\ IF \/ objs[o].info_ = MPI_INFO_NULL
          \/ ~(Len(key) < MPI_MAX_INFO_KEY)
          \/ ~(Len(value) < MPI_MAX_INFO_VAL)
       THEN Abort("operator[]=", o, <<key, value>>)
       ELSE LET h == objs[o].info_ IN
            \E s2 \in MPI_Info_set(store[h], key, value) :
            Step("operator[]=", o, <<key, value>>, objs, allocated,
                 [store EXCEPT ![h] = s2],
                 << <<"MPI_Info_set", h, key, value>> >>, Void)

\* size_type find_pos(key, size) const: info.hpp 2299-2311, from position i on
RECURSIVE find_pos_from(_, _, _, _)
find_pos_from(s, key, size, i) ==
    IF i < size
    THEN IF MPI_Info_get_nthkey(s, i) = key THEN i ELSE find_pos_from(s, key, size, i + 1)
    ELSE size
\* find_pos that does not look at position 0
find_pos_from_second(s, key, size) == find_pos_from(s, key, size, 1)
find_pos(s, key, size) == find_pos_from(s, key, size, 0)
\* the calls of find_pos(key, this->size()) that returned pos
find_pos_calls(h, size, pos) ==
    << <<"MPI_Info_get_nkeys", h>> >>
        \o [i \in 1..(IF pos < size THEN pos + 1 ELSE size) |-> <<"MPI_Info_get_nthkey", h, i - 1>>]
\* bool key_exists(key) const: info.hpp 2325-2329
key_exists(s, key) == MPI_Info_get_valuelen(s, key).flag
\* iterator(info_, pos): info.hpp 210
iterator(h, pos) == [info_ |-> h, pos_ |-> pos]
IteratorBool(it, flag) == [kind |-> "pair", first |-> it, second |-> flag]

\* insert that writes the value also when the key exists
insert_overwrites(o, key, value) ==
    /\ pc = "run"
    /\ objs[o].live
    /\ IF \/ objs[o].info_ = MPI_INFO_NULL
          \/ ~(Len(key) < MPI_MAX_INFO_KEY)
          \/ ~(Len(value) < MPI_MAX_INFO_VAL)
       THEN Abort("insert", o, <<key, value>>)
       ELSE LET h == objs[o].info_
                key_already_exists == key_exists(store[h], key)
            IN  \E s2 \in MPI_Info_set(store[h], key, value) :
                Step("insert", o, <<key, value>>, objs, allocated,
                     [store EXCEPT ![h] = s2],
                     << <<"MPI_Info_get_valuelen", h, key>>, <<"MPI_Info_set", h, key, value>> >>
                        \o find_pos_calls(h, Len(s2), find_pos(s2, key, Len(s2))),
                     IteratorBool(iterator(h, find_pos(s2, key, Len(s2))), ~key_already_exists))

\* std::pair<iterator, bool> insert(key, value): info.hpp 1268-1285
insert(o, key, value) ==
    /\ pc = "run"
    /\ objs[o].live
    /\ IF \/ objs[o].info_ = MPI_INFO_NULL
          \/ ~(Len(key) < MPI_MAX_INFO_KEY)
          \/ ~(Len(value) < MPI_MAX_INFO_VAL)
       THEN Abort("insert", o, <<key, value>>)
       ELSE LET h == objs[o].info_
                key_already_exists == key_exists(store[h], key)
            IN  IF key_already_exists
                THEN Step("insert", o, <<key, value>>, objs, allocated, store,
                          << <<"MPI_Info_get_valuelen", h, key>> >>
                             \o find_pos_calls(h, Len(store[h]), find_pos(store[h], key, Len(store[h]))),
                          IteratorBool(iterator(h, find_pos(store[h], key, Len(store[h]))), FALSE))
                ELSE \E s2 \in MPI_Info_set(store[h], key, value) :
                     Step("insert", o, <<key, value>>, objs, allocated,
                          [store EXCEPT ![h] = s2],
                          << <<"MPI_Info_get_valuelen", h, key>>, <<"MPI_Info_set", h, key, value>> >>
                             \o find_pos_calls(h, Len(s2), find_pos(s2, key, Len(s2))),
                          IteratorBool(iterator(h, find_pos(s2, key, Len(s2))), TRUE))

\* insert_or_assign that asks whether the key exists after it has written it
insert_or_assign_late_check(o, key, value) ==
    /\ pc = "run"
    /\ objs[o].live
    /\ IF \/ objs[o].info_ = MPI_INFO_NULL
          \/ ~(Len(key) < MPI_MAX_INFO_KEY)
          \/ ~(Len(value) < MPI_MAX_INFO_VAL)
       THEN Abort("insert_or_assign", o, <<key, value>>)
       ELSE LET h == objs[o].info_ IN
            \E s2 \in MPI_Info_set(store[h], key, value) :
                Step("insert_or_assign", o, <<key, value>>, objs, allocated,
                     [store EXCEPT ![h] = s2],
                     << <<"MPI_Info_set", h, key, value>>, <<"MPI_Info_get_valuelen", h, key>> >>
                        \o find_pos_calls(h, Len(s2), find_pos(s2, key, Len(s2))),
                     IteratorBool(iterator(h, find_pos(s2, key, Len(s2))), ~key_exists(s2, key)))

\* std::pair<iterator, bool> insert_or_assign(key, value): info.hpp 1395-1410
insert_or_assign(o, key, value) ==
    /\ pc = "run"
    /\ objs[o].live
    /\ IF \/ objs[o].info_ = MPI_INFO_NULL
          \/ ~(Len(key) < MPI_MAX_INFO_KEY)
          \/ ~(Len(value) < MPI_MAX_INFO_VAL)
       THEN Abort("insert_or_assign", o, <<key, value>>)
       ELSE LET h == objs[o].info_
                key_already_exists == key_exists(store[h], key)
            IN  \E s2 \in MPI_Info_set(store[h], key, value) :
                Step("insert_or_assign", o, <<key, value>>, objs, allocated,
                     [store EXCEPT ![h] = s2],
                     << <<"MPI_Info_get_valuelen", h, key>>, <<"MPI_Info_set", h, key, value>> >>
                        \o find_pos_calls(h, Len(s2), find_pos(s2, key, Len(s2))),
                     IteratorBool(iterator(h, find_pos(s2, key, Len(s2))), ~key_already_exists))

\* what at(key) const gives on the pairs s: info.hpp 1174-1185
at_value(s, key) ==
    IF ~MPI_Info_get_valuelen(s, key).flag
    THEN [kind |-> "throw", what |-> "std::out_of_range"]
    ELSE [kind |-> "string", value |-> MPI_Info_get(s, key)]

\* at(key) const that, like a read of operator[], adds an absent key with the value " "
at_const_inserts(o, key) ==
    /\ pc = "run"
    /\ objs[o].live
    /\ IF objs[o].info_ = MPI_INFO_NULL \/ ~(Len(key) < MPI_MAX_INFO_KEY)
       THEN Abort("at const", o, <<key>>)
       ELSE LET h == objs[o].info_ IN
            IF MPI_Info_get_valuelen(store[h], key).flag
            THEN Step("at const", o, <<key>>, objs, allocated, store,
                      << <<"MPI_Info_get_valuelen", h, key>>, <<"MPI_Info_get", h, key>> >>,
                      at_value(store[h], key))
            ELSE \E s2 \in MPI_Info_set(store[h], key, " ") :
                 Step("at const", o, <<key>>, objs, allocated, [store EXCEPT ![h] = s2],
                      << <<"MPI_Info_get_valuelen", h, key>>, <<"MPI_Info_set", h, key, " ">> >>,
                      at_value(s2, key))

\* std::string at(const std::string_view key) const: info.hpp 1168-1186
at_const(o, key) ==
    /\ pc = "run"
    /\ objs[o].live
    /\ IF objs[o].info_ = MPI_INFO_NULL \/ ~(Len(key) < MPI_MAX_INFO_KEY)
       THEN Abort("at const", o, <<key>>)
       ELSE LET h == objs[o].info_ IN
            Step("at const", o, <<key>>, objs, allocated, store,
                 IF MPI_Info_get_valuelen(store[h], key).flag
                 THEN << <<"MPI_Info_get_valuelen", h, key>>, <<"MPI_Info_get", h, key>> >>
                 ELSE << <<"MPI_Info_get_valuelen", h, key>> >>,
                 at_value(store[h], key))

\* size_type erase(const std::string_view key): info.hpp 1636-1649
erase_key(o, key) ==
    /\ pc = "run"
    /\ objs[o].live
    /\ IF objs[o].info_ = MPI_INFO_NULL \/ ~(Len(key) < MPI_MAX_INFO_KEY)
       THEN Abort("erase(key)", o, <<key>>)
       ELSE LET h == objs[o].info_ IN
            IF MPI_Info_get_valuelen(store[h], key).flag
            THEN \E s2 \in MPI_Info_delete(store[h], key) :
                 Step("erase(key)", o, <<key>>, objs, allocated,
                      [store EXCEPT ![h] = s2],
                      << <<"MPI_Info_get_valuelen", h, key>>, <<"MPI_Info_delete", h, key>> >>,
                      [kind |-> "size", n |-> 1])
            ELSE Step("erase(key)", o, <<key>>, objs, allocated, store,
                      << <<"MPI_Info_get_valuelen", h, key>> >>,
                      [kind |-> "size", n |-> 0])

\* ------------------------------------------------------------------------
\* Capacity and iterators
\* ------------------------------------------------------------------------
Bool(b) == [kind |-> "bool", value |-> b]
Size(n) == [kind |-> "size", n |-> n]
Iterator(it) == [kind |-> "iterator", it |-> it]
\* std::make_reverse_iterator(it)
make_reverse_iterator(it) == [kind |-> "reverse_iterator", base |-> it]

\* an operation that changes nothing, of an object whose handle is not null
Read(op, o, args, cs, res) == Step(op, o, args, objs, allocated, store, cs, res)

\* ------------------------------------------------------------------------
\* info_iterator: relational operators, arithmetic and distance
\* ------------------------------------------------------------------------
Difference(n) == [kind |-> "difference", n |-> n]

\* bool operator==(const info_iterator<is_rhs_const>& rhs) const: info.hpp 247-252
iterator_eq(lhs, rhs) ==
    IF ~(lhs.info_ = rhs.info_) THEN AssertFailed
    ELSE Bool(lhs.info_ = rhs.info_ /\ lhs.pos_ = rhs.pos_)
\* operator!=: info.hpp 256-261
iterator_ne(lhs, rhs) ==
    IF ~(lhs.info_ = rhs.info_) THEN AssertFailed
    ELSE Bool(lhs.info_ # rhs.info_ \/ lhs.pos_ # rhs.pos_)
\* operator< without the assertion
iterator_lt_unchecked(lhs, rhs) == Bool(lhs.info_ = rhs.info_ /\ lhs.pos_ < rhs.pos_)
\* operator<: info.hpp 265-270
iterator_lt(lhs, rhs) ==
    IF ~(lhs.info_ = rhs.info_) THEN AssertFailed
    ELSE Bool(lhs.info_ = rhs.info_ /\ lhs.pos_ < rhs.pos_)
\* operator>: info.hpp 274-279
iterator_gt(lhs, rhs) ==
    IF ~(lhs.info_ = rhs.info_) THEN AssertFailed
    ELSE Bool(lhs.info_ = rhs.info_ /\ lhs.pos_ > rhs.pos_)
\* operator<= that is operator<
iterator_le_strict(lhs, rhs) == iterator_lt(lhs, rhs)
\* operator<=: info.hpp 283-288
iterator_le(lhs, rhs) ==
    IF ~(lhs.info_ = rhs.info_) THEN AssertFailed
    ELSE Bool(lhs.info_ = rhs.info_ /\ lhs.pos_ <= rhs.pos_)
\* operator>=: info.hpp 292-297
iterator_ge(lhs, rhs) ==
    IF ~(lhs.info_ = rhs.info_) THEN AssertFailed
    ELSE Bool(lhs.info_ = rhs.info_ /\ lhs.pos_ >= rhs.pos_)
\* difference_type operator-(const info_iterator<is_rhs_const>& rhs): info.hpp 398-403
iterator_difference(lhs, rhs) ==
    IF ~(lhs.info_ = rhs.info_) THEN AssertFailed
    ELSE Difference(lhs.pos_ - rhs.pos_)

\* the values of int, the type of pos_ (info.hpp 522), and of std::ptrdiff_t, the
\* difference_type (info.hpp 169)
INT_MIN == -(2 ^ (IntBits - 1))
INT_MAX == (2 ^ (IntBits - 1)) - 1
Ints == INT_MIN..INT_MAX
PTRDIFF_MIN == -(2 ^ (2 * IntBits - 1))
PTRDIFF_MAX == (2 ^ (2 * IntBits - 1)) - 1
Ptrdiffs == PTRDIFF_MIN..PTRDIFF_MAX
\* the conversion of a std::ptrdiff_t to int: the value modulo 2^IntBits
ToInt(x) == ((x - INT_MIN) % (2 ^ IntBits)) + INT_MIN
\* the values an int expression of mathematical value x can have: a signed overflow
\* is undefined
IntResult(x) == IF x \in Ints THEN {x} ELSE Ints
\* the values pos_ can have after pos_ += inc or pos_ -= inc, of mathematical value x:
\* computed as a std::ptrdiff_t (undefined when that overflows) and converted to int
Narrowed(x) == IF x \in Ptrdiffs THEN {ToInt(x)} ELSE Ints

\* it + inc: info.hpp 335-338; pos_ is an int
iterator_plus(it, inc) == [it EXCEPT !.pos_ = ToInt(it.pos_ + inc)]
\* it - inc: info.hpp 377-380
iterator_minus(it, inc) == [it EXCEPT !.pos_ = ToInt(it.pos_ - inc)]

\* the result of an operation that modifies or copies an iterator: the iterator
\* returned, and the operand afterwards
Modified(returned, self) == [kind |-> "modified", it |-> returned, self |-> self]
\* the operations of info.hpp 307-380 that take no argument, and those that take one
StepOps == {"++it", "it++", "--it", "it--"}
OffsetOps == {"it += inc", "it + inc", "inc + it", "it -= inc", "it - inc"}
\* the positions the operation op can leave in the iterator it modifies
new_pos(op, it, inc) ==
    CASE op \in {"++it", "it++"} -> IntResult(it.pos_ + 1)
      [] op \in {"--it", "it--"} -> IntResult(it.pos_ - 1)
      [] op \in {"it += inc", "it + inc", "inc + it"} -> Narrowed(it.pos_ + inc)
      [] op \in {"it -= inc", "it - inc"} -> Narrowed(it.pos_ - inc)
\* ++, --, +=, -=, + and - on the iterator it (info.hpp 307-380): none of them calls
\* the MPI library.  it++ and it-- return the old iterator, + and - leave their
\* operand, which they take by value, as it was.
iterator_modify(op, it, inc) ==
    /\ pc = "run"
    /\ \E pos \in new_pos(op, it, inc) :
        LET moved == [it EXCEPT !.pos_ = pos] IN
        Read(op, it, IF op \in StepOps THEN <<>> ELSE <<inc>>, <<>>,
             CASE op \in {"it++", "it--"} -> Modified(it, moved)
               [] op \in {"it + inc", "inc + it", "it - inc"} -> Modified(moved, it)
               [] OTHER -> Modified(moved, moved))

RelationalOps == {"iterator ==", "iterator !=", "iterator <", "iterator >", "iterator <=",
                  "iterator >=", "iterator -"}
\* lhs op rhs, for an info_iterator<is_const> lhs and an info_iterator<is_rhs_const> rhs:
\* the operators are templates that do not look at the two parameters
iterator_relational(op, lhs, is_const, rhs, is_rhs_const) ==
    /\ pc = "run"
    /\ Read(op, lhs, <<rhs, is_const, is_rhs_const>>, <<>>,
            CASE op = "iterator ==" -> iterator_eq(lhs, rhs)
              [] op = "iterator !=" -> iterator_ne(lhs, rhs)
              [] op = "iterator <" -> iterator_lt(lhs, rhs)
              [] op = "iterator >" -> iterator_gt(lhs, rhs)
              [] op = "iterator <=" -> iterator_le(lhs, rhs)
              [] op = "iterator >=" -> iterator_ge(lhs, rhs)
              [] op = "iterator -" -> iterator_difference(lhs, rhs))

\* bool empty() const: info.hpp 1043-1047
empty(o) ==
    /\ pc = "run"
    /\ objs[o].live
    /\ IF objs[o].info_ = MPI_INFO_NULL
       THEN Abort("empty", o, <<>>)
       ELSE LET h == objs[o].info_ IN
            Read("empty", o, <<>>, << <<"MPI_Info_get_nkeys", h>> >>,
                 Bool(MPI_Info_get_nkeys(store[h]) = 0))

\* size() that does not look at the handle first
size_unchecked(o) ==
    /\ pc = "run"
    /\ objs[o].live
    /\ LET h == objs[o].info_ IN
       Read("size", o, <<>>, << <<"MPI_Info_get_nkeys", h>> >>,
            Size(IF h = MPI_INFO_NULL THEN 0 ELSE MPI_Info_get_nkeys(store[h])))

\* size_type size() const: info.hpp 1061-1067
size(o) ==
    /\ pc = "run"
    /\ objs[o].live
    /\ IF objs[o].info_ = MPI_INFO_NULL
       THEN Abort("size", o, <<>>)
       ELSE LET h == objs[o].info_ IN
            Read("size", o, <<>>, << <<"MPI_Info_get_nkeys", h>> >>,
                 Size(MPI_Info_get_nkeys(store[h])))

\* the operations that return iterator(info_, 0): begin() (info.hpp 860-864),
\* begin() const (895-899) and cbegin() (922-926)
BeginOps == {"begin", "begin const", "cbegin"}
begin(o, op) ==
    /\ pc = "run"
    /\ objs[o].live
    /\ IF objs[o].info_ = MPI_INFO_NULL
       THEN Abort(op, o, <<>>)
       ELSE Read(op, o, <<>>, <<>>, Iterator(iterator(objs[o].info_, 0)))

\* end() that returns the position of the last element
end_at_last(o, op) ==
    /\ pc = "run"
    /\ objs[o].live
    /\ IF objs[o].info_ = MPI_INFO_NULL
       THEN Abort(op, o, <<>>)
       ELSE LET h == objs[o].info_ IN
            Read(op, o, <<>>, << <<"MPI_Info_get_nkeys", h>> >>,
                 Iterator(iterator(h, MPI_Info_get_nkeys(store[h]) - 1)))

\* the operations that return iterator(info_, size()): end() (info.hpp 879-883),
\* end() const (914-918) and cend() (930-934)
EndOps == {"end", "end const", "cend"}
end(o, op) ==
    /\ pc = "run"
    /\ objs[o].live
    /\ IF objs[o].info_ = MPI_INFO_NULL
       THEN Abort(op, o, <<>>)
       ELSE LET h == objs[o].info_ IN
            Read(op, o, <<>>, << <<"MPI_Info_get_nkeys", h>> >>,
                 Iterator(iterator(h, MPI_Info_get_nkeys(store[h]))))

\* size_type max_size() const noexcept: info.hpp 1079-1081
max_size(o) ==
    /\ pc = "run"
    /\ objs[o].live
    /\ Read("max_size", o, <<>>, <<>>, Size(PTRDIFF_MAX))

\* MPI_Info get() const noexcept: info.hpp 2276
get(o) ==
    /\ pc = "run"
    /\ objs[o].live
    /\ Read("get", o, <<>>, <<>>, [kind |-> "MPI_Info", handle |-> objs[o].info_])

\* bool freeable() const noexcept: info.hpp 2282
freeable(o) ==
    /\ pc = "run"
    /\ objs[o].live
    /\ Read("freeable", o, <<>>, <<>>, Bool(objs[o].is_freeable_))

\* the operations that return make_reverse_iterator(end()): rbegin() (info.hpp
\* 951-955), rbegin() const (988-992) and crbegin() (1013-1017)
RbeginOps == {"rbegin", "rbegin const", "crbegin"}
rbegin(o, op) ==
    /\ pc = "run"
    /\ objs[o].live
    /\ IF objs[o].info_ = MPI_INFO_NULL
       THEN Abort(op, o, <<>>)
       ELSE LET h == objs[o].info_ IN
            Read(op, o, <<>>, << <<"MPI_Info_get_nkeys", h>> >>,
                 make_reverse_iterator(iterator(h, MPI_Info_get_nkeys(store[h]))))

\* the operations that return make_reverse_iterator(begin()): rend() (info.hpp
\* 968-972), rend() const (1005-1009) and crend() (1021-1025)
RendOps == {"rend", "rend const", "crend"}
rend(o, op) ==
    /\ pc = "run"
    /\ objs[o].live
    /\ IF objs[o].info_ = MPI_INFO_NULL
       THEN Abort(op, o, <<>>)
       ELSE Read(op, o, <<>>, <<>>, make_reverse_iterator(iterator(objs[o].info_, 0)))

\* ------------------------------------------------------------------------
\* Element access and lookup without modification
\* ------------------------------------------------------------------------
\* string_proxy(info_, key): info.hpp 60-62
string_proxy(ptr, key) == [kind |-> "string_proxy", ptr_ |-> ptr, key_ |-> key]
OutOfRange == [kind |-> "throw", what |-> "std::out_of_range"]

\* at(key) without the test whether the key exists
at_unchecked(o, key) ==
    /\ pc = "run"
    /\ objs[o].live
    /\ IF objs[o].info_ = MPI_INFO_NULL \/ ~(Len(key) < MPI_MAX_INFO_KEY)
       THEN Abort("at", o, <<key>>)
       ELSE LET h == objs[o].info_ IN
            Read("at", o, <<key>>, << <<"MPI_Info_get_valuelen", h, key>> >>,
                 string_proxy(h, key))

\* string_proxy at(key): info.hpp 1126-1139
at(o, key) ==
    /\ pc = "run"
    /\ objs[o].live
    /\ IF objs[o].info_ = MPI_INFO_NULL \/ ~(Len(key) < MPI_MAX_INFO_KEY)
       THEN Abort("at", o, <<key>>)
       ELSE LET h == objs[o].info_ IN
            Read("at", o, <<key>>, << <<"MPI_Info_get_valuelen", h, key>> >>,
                 IF ~key_exists(store[h], key) THEN OutOfRange ELSE string_proxy(h, key))

\* string_proxy operator[](key): info.hpp 1230-1238
subscript(o, key) ==
    /\ pc = "run"
    /\ objs[o].live
    /\ IF objs[o].info_ = MPI_INFO_NULL \/ ~(Len(key) < MPI_MAX_INFO_KEY)
       THEN Abort("operator[]", o, <<key>>)
       ELSE Read("operator[]", o, <<key>>, <<>>, string_proxy(objs[o].info_, key))

String(value) == [kind |-> "string", value |-> value]

\* the read of a proxy that inserts nothing when the key is absent
string_proxy_read_no_insert(proxy) ==
    /\ pc = "run"
    /\ LET h == proxy.ptr_
           key == proxy.key_ IN
       Step("operator std::string", last.self, <<proxy>>, objs, allocated, store,
            << <<"MPI_Info_get_valuelen", h, key>> >>,
            IF MPI_Info_get_valuelen(store[h], key).flag
            THEN String(MPI_Info_get(store[h], key)) ELSE String(" "))

\* string_proxy::operator std::string() const: info.hpp 103-118, on the proxy that
\* at or operator[] of object last.self has just returned
string_proxy_read(proxy) ==
    /\ pc = "run"
    /\ LET h == proxy.ptr_
           key == proxy.key_ IN
       IF ~MPI_Info_get_valuelen(store[h], key).flag
       THEN \E s2 \in MPI_Info_set(store[h], key, " ") :
            Step("operator std::string", last.self, <<proxy>>, objs, allocated,
                 [store EXCEPT ![h] = s2],
                 << <<"MPI_Info_get_valuelen", h, key>>, <<"MPI_Info_set", h, key, " ">> >>,
                 String(" "))
       ELSE Step("operator std::string", last.self, <<proxy>>, objs, allocated, store,
                 << <<"MPI_Info_get_valuelen", h, key>>, <<"MPI_Info_get", h, key>> >>,
                 String(MPI_Info_get(store[h], key)))

\* size_type count(key) const: info.hpp 1846-1853; its result is contains(key)
count(o, key) ==
    /\ pc = "run"
    /\ objs[o].live
    /\ IF objs[o].info_ = MPI_INFO_NULL \/ ~(Len(key) < MPI_MAX_INFO_KEY)
       THEN Abort("count", o, <<key>>)
       ELSE LET h == objs[o].info_
                size_ == MPI_Info_get_nkeys(store[h])
                pos == find_pos(store[h], key, size_)
            IN  Read("count", o, <<key>>, find_pos_calls(h, size_, pos),
                     Size(IF pos # size_ THEN 1 ELSE 0))

\* iterator find(key) (info.hpp 1876-1884) and const_iterator find(key) const (1907-1915)
FindOps == {"find", "find const"}
find(o, key, op) ==
    /\ pc = "run"
    /\ objs[o].live
    /\ IF objs[o].info_ = MPI_INFO_NULL \/ ~(Len(key) < MPI_MAX_INFO_KEY)
       THEN Abort(op, o, <<key>>)
       ELSE LET h == objs[o].info_
                size_ == MPI_Info_get_nkeys(store[h])
                pos == find_pos(store[h], key, size_)
            IN  Read(op, o, <<key>>, find_pos_calls(h, size_, pos), Iterator(iterator(h, pos)))

\* bool contains(key) const: info.hpp 1935-1943
contains(o, key) ==
    /\ pc = "run"
    /\ objs[o].live
    /\ IF objs[o].info_ = MPI_INFO_NULL \/ ~(Len(key) < MPI_MAX_INFO_KEY)
       THEN Abort("contains", o, <<key>>)
       ELSE LET h == objs[o].info_
                size_ == MPI_Info_get_nkeys(store[h])
                pos == find_pos(store[h], key, size_)
            IN  Read("contains", o, <<key>>, find_pos_calls(h, size_, pos), Bool(pos # size_))

\* equal_range(key) (info.hpp 1970-1985) and equal_range(key) const (2012-2027)
EqualRangeOps == {"equal_range", "equal_range const"}
equal_range(o, key, op) ==
    /\ pc = "run"
    /\ objs[o].live
    /\ IF objs[o].info_ = MPI_INFO_NULL \/ ~(Len(key) < MPI_MAX_INFO_KEY)
       THEN Abort(op, o, <<key>>)
       ELSE LET h == objs[o].info_
                size_ == MPI_Info_get_nkeys(store[h])
                pos == find_pos(store[h], key, size_)
            IN  Read(op, o, <<key>>, find_pos_calls(h, size_, pos),
                     IF pos # size_
                     THEN [kind |-> "range", first |-> iterator(h, pos), second |-> iterator(h, pos + 1)]
                     ELSE [kind |-> "range", first |-> iterator(h, size_), second |-> iterator(h, size_)])

Vector(v) == [kind |-> "vector", elements |-> v]

\* std::vector<std::string> keys() const: info.hpp 2214-2229
keys(o) ==
    /\ pc = "run"
    /\ objs[o].live
    /\ IF objs[o].info_ = MPI_INFO_NULL
       THEN Abort("keys", o, <<>>)
       ELSE LET h == objs[o].info_
                size_ == MPI_Info_get_nkeys(store[h])
            IN  Read("keys", o, <<>>,
                     << <<"MPI_Info_get_nkeys", h>> >>
                        \o [i \in 1..size_ |-> <<"MPI_Info_get_nthkey", h, i - 1>>],
                     Vector([i \in 1..size_ |-> MPI_Info_get_nthkey(store[h], i - 1)]))

\* the calls of one round of the loop of values(): info.hpp 2255-2260
value_calls(h, s, i) ==
    << <<"MPI_Info_get_nthkey", h, i>>,
       <<"MPI_Info_get_valuelen", h, MPI_Info_get_nthkey(s, i)>>,
       <<"MPI_Info_get", h, MPI_Info_get_nthkey(s, i)>> >>
RECURSIVE values_calls(_, _, _, _)
values_calls(h, s, i, size_) ==
    IF i < size_ THEN value_calls(h, s, i) \o values_calls(h, s, i + 1, size_) ELSE <<>>

\* values() that fills its vector from the back
values_reversed(o) ==
    /\ pc = "run"
    /\ objs[o].live
    /\ IF objs[o].info_ = MPI_INFO_NULL
       THEN Abort("values", o, <<>>)
       ELSE LET h == objs[o].info_
                size_ == MPI_Info_get_nkeys(store[h])
            IN  Read("values", o, <<>>,
                     << <<"MPI_Info_get_nkeys", h>> >> \o values_calls(h, store[h], 0, size_),
                     Vector([i \in 1..size_ |->
                                MPI_Info_get(store[h], MPI_Info_get_nthkey(store[h], size_ - i))]))

\* std::vector<std::string> values() const: info.hpp 2245-2265
values(o) ==
    /\ pc = "run"
    /\ objs[o].live
    /\ IF objs[o].info_ = MPI_INFO_NULL
       THEN Abort("values", o, <<>>)
       ELSE LET h == objs[o].info_
                size_ == MPI_Info_get_nkeys(store[h])
            IN  Read("values", o, <<>>,
                     << <<"MPI_Info_get_nkeys", h>> >> \o values_calls(h, store[h], 0, size_),
                     Vector([i \in 1..size_ |->
                                MPI_Info_get(store[h], MPI_Info_get_nthkey(store[h], i - 1))]))

\* ------------------------------------------------------------------------
\* Modifiers on ranges
\* ------------------------------------------------------------------------
\* insert(first, last) that writes every pair, whether its key is present or not
insert_loop_last_wins(h, s, il) == insert_or_assign_loop(h, s, il)

\* the loop of insert(first, last) on handle h holding s: info.hpp 1322-1338.
\* The outcomes: the pairs left, the calls issued, and whether every assertion
\* held (ok); a failed assertion ends the loop at once.
RECURSIVE insert_loop(_, _, _)
insert_loop(h, s, il) ==
    IF il = <<>> THEN {[s |-> s, calls |-> <<>>, ok |-> TRUE]}
    ELSE IF ~(Len(il[1][1]) < MPI_MAX_INFO_KEY) \/ ~(Len(il[1][2]) < MPI_MAX_INFO_VAL)
    THEN {[s |-> s, calls |-> <<>>, ok |-> FALSE]}
    ELSE IF key_exists(s, il[1][1])
    THEN {[s |-> r.s,
           calls |-> << <<"MPI_Info_get_valuelen", h, il[1][1]>> >> \o r.calls,
           ok |-> r.ok] : r \in insert_loop(h, s, Tail(il))}
    ELSE UNION {
        {[s |-> r.s,
          calls |-> << <<"MPI_Info_get_valuelen", h, il[1][1]>>,
                       <<"MPI_Info_set", h, il[1][1], il[1][2]>> >> \o r.calls,
          ok |-> r.ok] : r \in insert_loop(h, s2, Tail(il))}
        : s2 \in MPI_Info_set(s, il[1][1], il[1][2])}

\* void insert(InputIt first, InputIt last) (info.hpp 1317-1339) and
\* void insert(std::initializer_list<value_type> ilist) (1365), which calls it
InsertRangeOps == {"insert(first,last)", "insert(ilist)"}
insert_range(o, ilist, op) ==
    /\ pc = "run"
    /\ objs[o].live
    /\ IF objs[o].info_ = MPI_INFO_NULL
       THEN Abort(op, o, <<ilist>>)
       ELSE LET h == objs[o].info_ IN
            \E r \in insert_loop(h, store[h], ilist) :
                Step(op, o, <<ilist>>, objs, allocated, [store EXCEPT ![h] = r.s], r.calls,
                     IF r.ok THEN Void ELSE AssertFailed)

\* void insert_or_assign(InputIt first, InputIt last) (info.hpp 1440-1459) and
\* void insert_or_assign(std::initializer_list<value_type> ilist) (1483), which calls it
InsertOrAssignRangeOps == {"insert_or_assign(first,last)", "insert_or_assign(ilist)"}
insert_or_assign_range(o, ilist, op) ==
    /\ pc = "run"
    /\ objs[o].live
    /\ IF objs[o].info_ = MPI_INFO_NULL
       THEN Abort(op, o, <<ilist>>)
       ELSE LET h == objs[o].info_ IN
            \E r \in insert_or_assign_loop(h, store[h], ilist) :
                Step(op, o, <<ilist>>, objs, allocated, [store EXCEPT ![h] = r.s], r.calls,
                     IF r.ok THEN Void ELSE AssertFailed)

\* the loop of clear() on handle h holding s: info.hpp 1506-1509.  The calls it can issue.
RECURSIVE clear_loop(_, _)
clear_loop(h, s) ==
    IF s = <<>> THEN {<<>>}
    ELSE LET key == MPI_Info_get_nthkey(s, 0) IN
         UNION {
            {<< <<"MPI_Info_get_nthkey", h, 0>>, <<"MPI_Info_delete", h, key>> >> \o cs
                : cs \in clear_loop(h, s2)}
            : s2 \in MPI_Info_delete(s, key)}

\* clear() whose loop runs once at most
clear_front_only(o) ==
    /\ pc = "run"
    /\ objs[o].live
    /\ IF objs[o].info_ = MPI_INFO_NULL
       THEN Abort("clear", o, <<>>)
       ELSE LET h == objs[o].info_ IN
            IF store[h] = <<>>
            THEN Step("clear", o, <<>>, objs, allocated, store, << <<"MPI_Info_get_nkeys", h>> >>, Void)
            ELSE \E s2 \in MPI_Info_delete(store[h], MPI_Info_get_nthkey(store[h], 0)) :
                Step("clear", o, <<>>, objs, allocated, [store EXCEPT ![h] = s2],
                     << <<"MPI_Info_get_nkeys", h>>, <<"MPI_Info_get_nthkey", h, 0>>,
                        <<"MPI_Info_delete", h, MPI_Info_get_nthkey(store[h], 0)>> >>, Void)

\* void clear(): info.hpp 1500-1510
clear(o) ==
    /\ pc = "run"
    /\ objs[o].live
    /\ IF objs[o].info_ = MPI_INFO_NULL
       THEN Abort("clear", o, <<>>)
       ELSE LET h == objs[o].info_ IN
            \E cs \in clear_loop(h, store[h]) :
                Step("clear", o, <<>>, objs, allocated, [store EXCEPT ![h] = <<>>],
                     << <<"MPI_Info_get_nkeys", h>> >> \o cs, Void)

\* the pairs of s without the keys of the set ks, in the order of s
RECURSIVE Without(_, _)
Without(s, ks) ==
    IF s = <<>> THEN <<>>
    ELSE IF s[1][1] \in ks THEN Without(Tail(s), ks) ELSE <<s[1]>> \o Without(Tail(s), ks)
\* MPI_Info_delete of each key of the sequence ks, one after the other
delete_all(s, ks) == IF ks = <<>> THEN {s} ELSE Reorderings(Without(s, {ks[i] : i \in 1..Len(ks)}))
delete_calls(h, ks) == [i \in 1..Len(ks) |-> <<"MPI_Info_delete", h, ks[i]>>]

\* the calls of the assertion pos_ >= 0 && pos_ < size() (or <= size()): size() is
\* only called when pos_ >= 0
bound_calls(h, pos_) == IF pos_ >= 0 THEN << <<"MPI_Info_get_nkeys", h>> >> ELSE <<>>

\* erase(pos) that removes the key at position 0 whatever pos is
erase_pos_front(o, pos) ==
    /\ pc = "run"
    /\ objs[o].live
    /\ IF \/ objs[o].info_ = MPI_INFO_NULL
          \/ pos.info_ # objs[o].info_
       THEN Abort("erase(pos)", o, <<pos>>)
       ELSE LET h == objs[o].info_ IN
            IF ~(pos.pos_ >= 0 /\ pos.pos_ < MPI_Info_get_nkeys(store[h]))
            THEN Read("erase(pos)", o, <<pos>>, bound_calls(h, pos.pos_), AssertFailed)
            ELSE LET key == MPI_Info_get_nthkey(store[h], 0) IN
                 \E s2 \in MPI_Info_delete(store[h], key) :
                    Step("erase(pos)", o, <<pos>>, objs, allocated, [store EXCEPT ![h] = s2],
                         bound_calls(h, pos.pos_)
                            \o << <<"MPI_Info_get_nthkey", h, 0>>,
                                  <<"MPI_Info_delete", h, key>> >>,
                         Iterator(iterator(h, pos.pos_)))

\* erase(pos) that returns an iterator one position further
erase_pos_returns_next(o, pos) ==
    /\ pc = "run"
    /\ objs[o].live
    /\ IF \/ objs[o].info_ = MPI_INFO_NULL
          \/ pos.info_ # objs[o].info_
       THEN Abort("erase(pos)", o, <<pos>>)
       ELSE LET h == objs[o].info_ IN
            IF ~(pos.pos_ >= 0 /\ pos.pos_ < MPI_Info_get_nkeys(store[h]))
            THEN Read("erase(pos)", o, <<pos>>, bound_calls(h, pos.pos_), AssertFailed)
            ELSE LET key == MPI_Info_get_nthkey(store[h], pos.pos_) IN
                 \E s2 \in MPI_Info_delete(store[h], key) :
                    Step("erase(pos)", o, <<pos>>, objs, allocated, [store EXCEPT ![h] = s2],
                         bound_calls(h, pos.pos_)
                            \o << <<"MPI_Info_get_nthkey", h, pos.pos_>>,
                                  <<"MPI_Info_delete", h, key>> >>,
                         Iterator(iterator(h, pos.pos_ + 1)))

\* iterator erase(const_iterator pos): info.hpp 1536-1547
erase_pos(o, pos) ==
    /\ pc = "run"
    /\ objs[o].live
    /\ IF \/ objs[o].info_ = MPI_INFO_NULL
          \/ pos.info_ # objs[o].info_
       THEN Abort("erase(pos)", o, <<pos>>)
       ELSE LET h == objs[o].info_ IN
            IF ~(pos.pos_ >= 0 /\ pos.pos_ < MPI_Info_get_nkeys(store[h]))
            THEN Read("erase(pos)", o, <<pos>>, bound_calls(h, pos.pos_), AssertFailed)
            ELSE LET key == MPI_Info_get_nthkey(store[h], pos.pos_) IN
                 \E s2 \in MPI_Info_delete(store[h], key) :
                    Step("erase(pos)", o, <<pos>>, objs, allocated, [store EXCEPT ![h] = s2],
                         bound_calls(h, pos.pos_)
                            \o << <<"MPI_Info_get_nthkey", h, pos.pos_>>,
                                  <<"MPI_Info_delete", h, key>> >>,
                         Iterator(iterator(h, pos.pos_)))

\* erase(first, last) that saves the keys of the rest of the range only after it
\* has deleted the first key of the range
erase_range_reads_after_delete(o, first, last_) ==
    /\ pc = "run"
    /\ objs[o].live
    /\ IF \/ objs[o].info_ = MPI_INFO_NULL
          \/ first.info_ # objs[o].info_
          \/ last_.info_ # objs[o].info_
       THEN Abort("erase(first,last)", o, <<first, last_>>)
       ELSE LET h == objs[o].info_
                size_ == MPI_Info_get_nkeys(store[h])
            IN
            IF \/ ~(first.pos_ >= 0 /\ first.pos_ < size_)
               \/ ~(last_.pos_ >= 0 /\ last_.pos_ <= size_)
               \/ ~(first.pos_ <= last_.pos_)
            THEN Read("erase(first,last)", o, <<first, last_>>,
                      bound_calls(h, first.pos_), AssertFailed)
            ELSE IF first.pos_ = last_.pos_
            THEN Read("erase(first,last)", o, <<first, last_>>,
                      bound_calls(h, first.pos_) \o bound_calls(h, last_.pos_),
                      Iterator(iterator(h, first.pos_)))
            ELSE LET count_ == last_.pos_ - first.pos_
                     key == MPI_Info_get_nthkey(store[h], first.pos_)
                 IN  \E s1 \in MPI_Info_delete(store[h], key) :
                     LET rest == [i \in 1..(count_ - 1) |->
                                    MPI_Info_get_nthkey(s1, first.pos_ + i - 1)]
                     IN  \E s2 \in delete_all(s1, rest) :
                        Step("erase(first,last)", o, <<first, last_>>, objs, allocated,
                             [store EXCEPT ![h] = s2],
                             bound_calls(h, first.pos_) \o bound_calls(h, last_.pos_)
                                \o << <<"MPI_Info_get_nthkey", h, first.pos_>>,
                                      <<"MPI_Info_delete", h, key>> >>
                                \o [i \in 1..(count_ - 1) |->
                                        <<"MPI_Info_get_nthkey", h, first.pos_ + i - 1>>]
                                \o delete_calls(h, rest),
                             Iterator(iterator(h, first.pos_)))

\* iterator erase(const_iterator first, const_iterator last): info.hpp 1583-1611
erase_range(o, first, last_) ==
    /\ pc = "run"
    /\ objs[o].live
    /\ IF \/ objs[o].info_ = MPI_INFO_NULL
          \/ first.info_ # objs[o].info_
          \/ last_.info_ # objs[o].info_
       THEN Abort("erase(first,last)", o, <<first, last_>>)
       ELSE LET h == objs[o].info_
                size_ == MPI_Info_get_nkeys(store[h])
            IN
            IF ~(first.pos_ >= 0 /\ first.pos_ < size_)
            THEN Read("erase(first,last)", o, <<first, last_>>,
                      bound_calls(h, first.pos_), AssertFailed)
            ELSE IF ~(last_.pos_ >= 0 /\ last_.pos_ <= size_) \/ ~(first.pos_ <= last_.pos_)
            THEN Read("erase(first,last)", o, <<first, last_>>,
                      bound_calls(h, first.pos_) \o bound_calls(h, last_.pos_), AssertFailed)
            ELSE LET count_ == last_.pos_ - first.pos_
                     keys_to_delete ==
                        [i \in 1..count_ |-> MPI_Info_get_nthkey(store[h], first.pos_ + i - 1)]
                 IN  \E s2 \in delete_all(store[h], keys_to_delete) :
                        Step("erase(first,last)", o, <<first, last_>>, objs, allocated,
                             [store EXCEPT ![h] = s2],
                             bound_calls(h, first.pos_) \o bound_calls(h, last_.pos_)
                                \o [i \in 1..count_ |-> <<"MPI_Info_get_nthkey", h, first.pos_ + i - 1>>]
                                \o delete_calls(h, keys_to_delete),
                             Iterator(iterator(h, first.pos_)))

\* ------------------------------------------------------------------------
\* extract, merge, erase_if and comparison
\* ------------------------------------------------------------------------
ValueType(key, value) == [kind |-> "value_type", first |-> key, second |-> value]
Optional(key, value) == [kind |-> "optional", first |-> key, second |-> value]
Nullopt == [kind |-> "nullopt"]

\* value_type extract(const_iterator pos): info.hpp 1691-1704; *pos is
\* info_iterator::operator[](0), info.hpp 442-467
extract_pos(o, pos) ==
    /\ pc = "run"
    /\ objs[o].live
    /\ IF \/ objs[o].info_ = MPI_INFO_NULL
          \/ pos.info_ # objs[o].info_
       THEN Abort("extract(pos)", o, <<pos>>)
       ELSE LET h == objs[o].info_ IN
            IF ~(pos.pos_ >= 0 /\ pos.pos_ < MPI_Info_get_nkeys(store[h]))
            THEN Read("extract(pos)", o, <<pos>>, bound_calls(h, pos.pos_), AssertFailed)
            ELSE LET key == MPI_Info_get_nthkey(store[h], pos.pos_)
                     value == MPI_Info_get(store[h], key)
                 IN  \E s2 \in MPI_Info_delete(store[h], key) :
                        Step("extract(pos)", o, <<pos>>, objs, allocated, [store EXCEPT ![h] = s2],
                             bound_calls(h, pos.pos_)
                                \o << <<"MPI_Info_get_nkeys", h>> >>
                                \o value_calls(h, store[h], pos.pos_)
                                \o << <<"MPI_Info_delete", h, key>> >>,
                             ValueType(key, value))

\* it[n] that reads the key at position 0
iterator_subscript_front(op, it, is_const, n) ==
    /\ pc = "run"
    /\ LET h == it.info_
           nkeys_calls == << <<"MPI_Info_get_nkeys", h>> >> IN
       IF h = MPI_INFO_NULL
       THEN Read(op, it, <<is_const, n>>, nkeys_calls, MPIError)
       ELSE IF ~((it.pos_ + n) >= 0 /\ (it.pos_ + n) < MPI_Info_get_nkeys(store[h]))
       THEN Read(op, it, <<is_const, n>>, nkeys_calls, AssertFailed)
       ELSE LET key == MPI_Info_get_nthkey(store[h], 0) IN
            IF is_const
            THEN Read(op, it, <<is_const, n>>, nkeys_calls \o value_calls(h, store[h], 0),
                      ValueType(key, MPI_Info_get(store[h], key)))
            ELSE Read(op, it, <<is_const, n>>,
                      nkeys_calls \o << <<"MPI_Info_get_nthkey", h, 0>> >>,
                      ValueType(key, string_proxy(h, key)))

\* reference operator[](const int n) const of info_iterator<is_const>: info.hpp
\* 442-476; operator* (428-430) and operator-> (516-518) call it with n = 0.
\* MPI_Info_get_nkeys is called before the assertions, so that it is the MPI library
\* that rejects an iterator bound to MPI_INFO_NULL.
iterator_subscript(op, it, is_const, n) ==
    /\ pc = "run"
    /\ LET h == it.info_
           nkeys_calls == << <<"MPI_Info_get_nkeys", h>> >> IN
       IF h = MPI_INFO_NULL
       THEN Read(op, it, <<is_const, n>>, nkeys_calls, MPIError)
       ELSE IF ~((it.pos_ + n) >= 0 /\ (it.pos_ + n) < MPI_Info_get_nkeys(store[h]))
       THEN Read(op, it, <<is_const, n>>, nkeys_calls, AssertFailed)
       ELSE LET key == MPI_Info_get_nthkey(store[h], it.pos_ + n) IN
            IF is_const
            THEN Read(op, it, <<is_const, n>>,
                      nkeys_calls \o value_calls(h, store[h], it.pos_ + n),
                      ValueType(key, MPI_Info_get(store[h], key)))
            ELSE Read(op, it, <<is_const, n>>,
                      nkeys_calls \o << <<"MPI_Info_get_nthkey", h, it.pos_ + n>> >>,
                      ValueType(key, string_proxy(h, key)))

\* extract(key) that returns the pair and leaves it in the object
extract_key_no_delete(o, key) ==
    /\ pc = "run"
    /\ objs[o].live
    /\ IF objs[o].info_ = MPI_INFO_NULL \/ ~(Len(key) < MPI_MAX_INFO_KEY)
       THEN Abort("extract(key)", o, <<key>>)
       ELSE LET h == objs[o].info_ IN
            IF MPI_Info_get_valuelen(store[h], key).flag
            THEN Read("extract(key)", o, <<key>>,
                      << <<"MPI_Info_get_valuelen", h, key>>, <<"MPI_Info_get", h, key>> >>,
                      Optional(key, MPI_Info_get(store[h], key)))
            ELSE Read("extract(key)", o, <<key>>, << <<"MPI_Info_get_valuelen", h, key>> >>, Nullopt)

\* std::optional<value_type> extract(key): info.hpp 1731-1751
extract_key(o, key) ==
    /\ pc = "run"
    /\ objs[o].live
    /\ IF objs[o].info_ = MPI_INFO_NULL \/ ~(Len(key) < MPI_MAX_INFO_KEY)
       THEN Abort("extract(key)", o, <<key>>)
       ELSE LET h == objs[o].info_ IN
            IF MPI_Info_get_valuelen(store[h], key).flag
            THEN \E s2 \in MPI_Info_delete(store[h], key) :
                    Step("extract(key)", o, <<key>>, objs, allocated, [store EXCEPT ![h] = s2],
                         << <<"MPI_Info_get_valuelen", h, key>>,
                            <<"MPI_Info_get", h, key>>,
                            <<"MPI_Info_delete", h, key>> >>,
                         Optional(key, MPI_Info_get(store[h], key)))
            ELSE Read("extract(key)", o, <<key>>, << <<"MPI_Info_get_valuelen", h, key>> >>, Nullopt)

\* the first loop of merge(source), from position i on: info.hpp 1796-1813.  t is
\* what *this holds and src what source holds; the outcomes are what *this holds
\* afterwards, the calls issued and keys_to_delete.
RECURSIVE merge_loop(_, _, _, _, _, _)
merge_loop(h, t, hs, src, i, size_) ==
    IF ~(i < size_) THEN {[s |-> t, calls |-> <<>>, keys_to_delete |-> <<>>]}
    ELSE LET source_key == MPI_Info_get_nthkey(src, i) IN
         IF key_exists(t, source_key)
         THEN {[s |-> r.s,
                calls |-> << <<"MPI_Info_get_nthkey", hs, i>>,
                             <<"MPI_Info_get_valuelen", h, source_key>> >> \o r.calls,
                keys_to_delete |-> r.keys_to_delete]
               : r \in merge_loop(h, t, hs, src, i + 1, size_)}
         ELSE LET source_value == MPI_Info_get(src, source_key) IN
              UNION {
                {[s |-> r.s,
                  calls |-> << <<"MPI_Info_get_nthkey", hs, i>>,
                               <<"MPI_Info_get_valuelen", h, source_key>>,
                               <<"MPI_Info_get_valuelen", hs, source_key>>,
                               <<"MPI_Info_get", hs, source_key>>,
                               <<"MPI_Info_set", h, source_key, source_value>> >> \o r.calls,
                  keys_to_delete |-> <<source_key>> \o r.keys_to_delete]
                 : r \in merge_loop(h, t2, hs, src, i + 1, size_)}
                : t2 \in MPI_Info_set(t, source_key, source_value)}

\* merge(source) that leaves in source the pairs it has added to *this
merge_copies(o, source) ==
    /\ pc = "run"
    /\ objs[o].live
    /\ objs[source].live
    /\ IF objs[o].info_ = MPI_INFO_NULL \/ objs[source].info_ = MPI_INFO_NULL
       THEN Abort("merge", o, <<source>>)
       ELSE IF o = source
       THEN Read("merge", o, <<source>>, <<>>, Void)
       ELSE LET h == objs[o].info_
                hs == objs[source].info_
                size_ == MPI_Info_get_nkeys(store[hs])
            IN  \E r \in merge_loop(h, store[h], hs, store[hs], 0, size_) :
                    Step("merge", o, <<source>>, objs, allocated,
                         IF h = hs THEN store ELSE [store EXCEPT ![h] = r.s],
                         << <<"MPI_Info_get_nkeys", hs>> >> \o r.calls,
                         Void)

\* merge(source) that issues its deletes on source before it enumerates source
merge_deletes_first(o, source) ==
    /\ pc = "run"
    /\ objs[o].live
    /\ objs[source].live
    /\ IF objs[o].info_ = MPI_INFO_NULL \/ objs[source].info_ = MPI_INFO_NULL
       THEN Abort("merge", o, <<source>>)
       ELSE IF o = source
       THEN Read("merge", o, <<source>>, <<>>, Void)
       ELSE LET h == objs[o].info_
                hs == objs[source].info_
                size_ == MPI_Info_get_nkeys(store[hs])
            IN  \E r \in merge_loop(h, store[h], hs, store[hs], 0, size_) :
                \E src2 \in delete_all(store[hs], r.keys_to_delete) :
                    Step("merge", o, <<source>>, objs, allocated,
                         IF h = hs THEN store ELSE [store EXCEPT ![h] = r.s, ![hs] = src2],
                         << <<"MPI_Info_get_nkeys", hs>> >>
                            \o delete_calls(hs, r.keys_to_delete) \o r.calls,
                         Void)

\* void merge(info& source): info.hpp 1784-1819.  Two objects that hold the same
\* handle hold the same pairs, so that no key of source is missing in *this.
merge(o, source) ==
    /\ pc = "run"
    /\ objs[o].live
    /\ objs[source].live
    /\ IF objs[o].info_ = MPI_INFO_NULL \/ objs[source].info_ = MPI_INFO_NULL
       THEN Abort("merge", o, <<source>>)
       ELSE IF o = source
       THEN Read("merge", o, <<source>>, <<>>, Void)
       ELSE LET h == objs[o].info_
                hs == objs[source].info_
                size_ == MPI_Info_get_nkeys(store[hs])
            IN  \E r \in merge_loop(h, store[h], hs, store[hs], 0, size_) :
                \E src2 \in delete_all(store[hs], r.keys_to_delete) :
                    Step("merge", o, <<source>>, objs, allocated,
                         IF h = hs THEN store ELSE [store EXCEPT ![h] = r.s, ![hs] = src2],
                         << <<"MPI_Info_get_nkeys", hs>> >> \o r.calls
                            \o delete_calls(hs, r.keys_to_delete),
                         Void)

\* the predicates erase_if is called with: the set of the pairs that satisfy it
Preds == {{}, Keys \X Vals, {"a"} \X Vals, Keys \X {"1"}}
\* the keys at the positions i.. of s whose pairs satisfy pred: info.hpp 2173-2189
RECURSIVE erase_if_keys(_, _, _, _)
erase_if_keys(s, pred, i, size_) ==
    IF ~(i < size_) THEN <<>>
    ELSE LET key == MPI_Info_get_nthkey(s, i)
             key_value_pair == <<key, MPI_Info_get(s, key)>>
         IN  (IF key_value_pair \in pred THEN <<key>> ELSE <<>>)
                \o erase_if_keys(s, pred, i + 1, size_)

\* the calls of the first loop of erase_if from position i on (info.hpp 2173-2189):
\* the three MPI calls that read the pair, then the call of pred with the pair
RECURSIVE erase_if_calls(_, _, _, _)
erase_if_calls(h, s, i, size_) ==
    IF ~(i < size_) THEN <<>>
    ELSE LET key == MPI_Info_get_nthkey(s, i) IN
         value_calls(h, s, i) \o << <<"pred", key, MPI_Info_get(s, key)>> >>
            \o erase_if_calls(h, s, i + 1, size_)

\* erase_if whose first loop ends at the first pair that satisfies pred
erase_if_first_match(c, pred) ==
    /\ pc = "run"
    /\ objs[c].live
    /\ IF objs[c].info_ = MPI_INFO_NULL
       THEN Abort("erase_if", c, <<pred>>)
       ELSE LET h == objs[c].info_
                size_ == MPI_Info_get_nkeys(store[h])
                matches == erase_if_keys(store[h], pred, 0, size_)
                keys_to_delete == IF matches = <<>> THEN <<>> ELSE <<matches[1]>>
                last_ == IF matches = <<>> THEN size_ ELSE PosOf(store[h], matches[1])
            IN  \E s2 \in delete_all(store[h], keys_to_delete) :
                    Step("erase_if", c, <<pred>>, objs, allocated, [store EXCEPT ![h] = s2],
                         << <<"MPI_Info_get_nkeys", h>> >>
                            \o erase_if_calls(h, store[h], 0, last_)
                            \o delete_calls(h, keys_to_delete),
                         Void)

\* void erase_if(info& c, Pred pred): info.hpp 2164-2195
erase_if(c, pred) ==
    /\ pc = "run"
    /\ objs[c].live
    /\ IF objs[c].info_ = MPI_INFO_NULL
       THEN Abort("erase_if", c, <<pred>>)
       ELSE LET h == objs[c].info_
                size_ == MPI_Info_get_nkeys(store[h])
                keys_to_delete == erase_if_keys(store[h], pred, 0, size_)
            IN  \E s2 \in delete_all(store[h], keys_to_delete) :
                    Step("erase_if", c, <<pred>>, objs, allocated, [store EXCEPT ![h] = s2],
                         << <<"MPI_Info_get_nkeys", h>> >>
                            \o erase_if_calls(h, store[h], 0, size_)
                            \o delete_calls(h, keys_to_delete),
                         Void)

\* the loop of operator== from position i on: info.hpp 2061-2099.  The result and the calls.
RECURSIVE equal_loop(_, _, _, _, _, _)
equal_loop(hl, sl, hr, sr, i, size_) ==
    IF ~(i < size_) THEN [value |-> TRUE, calls |-> <<>>]
    ELSE LET key == MPI_Info_get_nthkey(sl, i)
             r == MPI_Info_get_valuelen(sr, key)
             l == MPI_Info_get_valuelen(sl, key)
             c1 == << <<"MPI_Info_get_nthkey", hl, i>>, <<"MPI_Info_get_valuelen", hr, key>> >>
             c2 == c1 \o << <<"MPI_Info_get_valuelen", hl, key>> >>
             c3 == c2 \o << <<"MPI_Info_get", hl, key>>, <<"MPI_Info_get", hr, key>> >>
         IN  IF ~r.flag THEN [value |-> FALSE, calls |-> c1]
             ELSE IF r.valuelen # l.valuelen THEN [value |-> FALSE, calls |-> c2]
             ELSE IF MPI_Info_get(sl, key) # MPI_Info_get(sr, key) THEN [value |-> FALSE, calls |-> c3]
             ELSE LET rest == equal_loop(hl, sl, hr, sr, i + 1, size_) IN
                  [value |-> rest.value, calls |-> c3 \o rest.calls]

\* operator== without the comparison of the sizes
equal_no_size_check(hl, sl, hr, sr) ==
    LET r == equal_loop(hl, sl, hr, sr, 0, MPI_Info_get_nkeys(sl)) IN
    [value |-> r.value,
     calls |-> << <<"MPI_Info_get_nkeys", hl>>, <<"MPI_Info_get_nkeys", hr>> >> \o r.calls]

\* what operator== does after its assertions: info.hpp 2056-2099
equal(hl, sl, hr, sr) ==
    IF MPI_Info_get_nkeys(sl) # MPI_Info_get_nkeys(sr)
    THEN [value |-> FALSE, calls |-> << <<"MPI_Info_get_nkeys", hl>>, <<"MPI_Info_get_nkeys", hr>> >>]
    ELSE LET r == equal_loop(hl, sl, hr, sr, 0, MPI_Info_get_nkeys(sl)) IN
         [value |-> r.value,
          calls |-> << <<"MPI_Info_get_nkeys", hl>>, <<"MPI_Info_get_nkeys", hr>> >> \o r.calls]

\* bool operator==(const info& lhs, const info& rhs): info.hpp 2051-2100
operator_eq(lhs, rhs) ==
    /\ pc = "run"
    /\ objs[lhs].live
    /\ objs[rhs].live
    /\ IF objs[lhs].info_ = MPI_INFO_NULL \/ objs[rhs].info_ = MPI_INFO_NULL
       THEN Abort("operator==", lhs, <<rhs>>)
       ELSE LET hl == objs[lhs].info_
                hr == objs[rhs].info_
                r == equal(hl, store[hl], hr, store[hr])
            IN  Read("operator==", lhs, <<rhs>>, r.calls, Bool(r.value))

\* bool operator!=(const info& lhs, const info& rhs): info.hpp 2119-2124
operator_ne(lhs, rhs) ==
    /\ pc = "run"
    /\ objs[lhs].live
    /\ objs[rhs].live
    /\ IF objs[lhs].info_ = MPI_INFO_NULL \/ objs[rhs].info_ = MPI_INFO_NULL
       THEN Abort("operator!=", lhs, <<rhs>>)
       ELSE LET hl == objs[lhs].info_
                hr == objs[rhs].info_
                r == equal(hl, store[hl], hr, store[hr])
            IN  Read("operator!=", lhs, <<rhs>>, r.calls, Bool(~r.value))

\* ------------------------------------------------------------------------
\* The program
\* ------------------------------------------------------------------------
Construct ==
    \/ \E o \in Objs : info_default(o)
    \/ \E o \in Objs, other \in AllObjs : info_copy(o, other)
    \/ \E o \in Objs, other \in Objs : info_move(o, other)
    \/ \E o \in Objs, init \in Ilists : info_ilist(o, init)
    \/ \E o \in Objs : dtor(o)

Assign ==
    \/ \E o \in Objs, rhs \in AllObjs : assign_copy(o, rhs)
    \/ \E o \in Objs, rhs \in Objs : assign_move(o, rhs)
    \/ \E o \in Objs, ilist \in Ilists : assign_ilist(o, ilist)
    \/ \E o \in Objs, other \in Objs : swap(o, other)

\* wrapping one of the two predefined handles
WrapPredefined ==
    \E o \in Objs, h \in {MPI_INFO_NULL, MPI_INFO_ENV}, f \in BOOLEAN : info_wrap(o, h, f)

\* wrapping, as not freeable, the handle that another object holds
WrapAlias ==
    \E o \in Objs, p \in Objs :
        /\ objs[p].live
        /\ objs[p].info_ \in allocated
        /\ info_wrap(o, objs[p].info_, FALSE)

Modify ==
    \/ \E o \in Objs, key \in KeyArgs, value \in ValArgs : subscript_assign(o, key, value)
    \/ \E o \in Objs, key \in KeyArgs : erase_key(o, key)

\* insertion and element access
Insert ==
    \/ \E o \in Objs, key \in KeyArgs, value \in ValArgs : insert(o, key, value)
    \/ \E o \in Objs, key \in KeyArgs, value \in ValArgs : insert_or_assign(o, key, value)
    \/ \E o \in AllObjs, key \in KeyArgs : at_const(o, key)

\* the positions and the iterators the program passes to erase and extract
Positions == 0..Cardinality(Keys)
IterArgs == {iterator(h, p) : h \in {MPI_INFO_NULL} \cup Pool, p \in Positions}

\* capacity and iterators
Observe ==
    \/ \E o \in Objs : empty(o)
    \/ \E o \in Objs : size(o)
    \/ \E o \in Objs, op \in BeginOps : begin(o, op)
    \/ \E o \in Objs, op \in EndOps : end(o, op)
    \/ \E o \in Objs, op \in RbeginOps : rbegin(o, op)
    \/ \E o \in Objs, op \in RendOps : rend(o, op)
    \/ \E o \in Objs : keys(o)
    \/ \E o \in Objs : values(o)

Lookup ==
    \/ \E o \in Objs, key \in KeyArgs : at(o, key)
    \/ \E o \in Objs, key \in KeyArgs : at_const(o, key)
    \/ \E o \in Objs, key \in KeyArgs : subscript(o, key)
    \/ \E o \in Objs, key \in KeyArgs : count(o, key)
    \/ \E o \in Objs, key \in KeyArgs, op \in FindOps : find(o, key, op)
    \/ \E o \in Objs, key \in KeyArgs : contains(o, key)
    \/ \E o \in Objs, key \in KeyArgs, op \in EqualRangeOps : equal_range(o, key, op)
    \/ \E lhs \in Objs, rhs \in Objs : operator_eq(lhs, rhs)
    \/ \E lhs \in Objs, rhs \in Objs : operator_ne(lhs, rhs)

Erase ==
    \/ \E o \in Objs : clear(o)
    \/ \E o \in Objs, pos \in IterArgs : erase_pos(o, pos)
    \/ \E o \in Objs, first \in IterArgs :
        \E last_ \in {it \in IterArgs : it.info_ = first.info_} : erase_range(o, first, last_)
    \/ \E o \in Objs, key \in KeyArgs : erase_key(o, key)
    \/ \E o \in Objs, pos \in IterArgs : extract_pos(o, pos)
    \/ \E o \in Objs, key \in KeyArgs : extract_key(o, key)
    \/ \E c \in Objs, pred \in Preds : erase_if(c, pred)

\* insertion of ranges and merge, with the initializer lists ils
InsertMany(ils) ==
    \/ \E o \in Objs, ilist \in ils, op \in InsertRangeOps : insert_range(o, ilist, op)
    \/ \E o \in Objs, ilist \in ils, op \in InsertOrAssignRangeOps :
            insert_or_assign_range(o, ilist, op)
    \/ \E o \in Objs, source \in Objs : merge(o, source)

\* construction, destruction, assignment and swap, with the predefined handles and
\* the handles of other objects wrapped
Next == Construct \/ Assign \/ WrapPredefined \/ WrapAlias

\* the same without info(MPI_Info, bool)
NextOwn == Construct \/ Assign

\* copies that are modified
NextCopy ==
    \/ \E o \in Objs : info_default(o)
    \/ \E o \in Objs, other \in AllObjs : info_copy(o, other)
    \/ \E o \in Objs : dtor(o)
    \/ Modify

\* objects that are filled and read
NextElem ==
    \/ \E o \in Objs : info_default(o)
    \/ \E o \in Objs : dtor(o)
    \/ Insert
    \/ Modify

\* the values and the initializer lists the objects of NextMoved are filled with:
\* one value that fits and one that does not, and lists of at most one pair
FillVals == {v \in ValArgs : v # "2"}
FillIlists == {il \in Ilists : Len(il) <= 1 /\ \A i \in 1..Len(il) : il[i][2] \in FillVals}

\* objects that are moved from and used afterwards
NextMoved ==
    \/ \E o \in Objs : info_default(o)
    \/ \E o \in Objs, other \in Objs : info_copy(o, other)
    \/ \E o \in Objs, other \in Objs : info_move(o, other)
    \/ \E o \in Objs : dtor(o)
    \/ \E o \in Objs, rhs \in Objs : assign_copy(o, rhs)
    \/ \E o \in Objs, key \in KeyArgs, value \in FillVals : insert(o, key, value)
    \/ \E o \in Objs, key \in KeyArgs, value \in FillVals : insert_or_assign(o, key, value)
    \/ Observe
    \/ Lookup
    \/ Erase
    \/ InsertMany(FillIlists)

\* objects built from and filled with ranges and initializer lists
NextRange ==
    \/ \E o \in Objs : info_default(o)
    \/ \E o \in Objs, init \in Ilists : info_ilist(o, init)
    \/ \E o \in Objs, init \in Ilists : info_range(o, init)
    \/ \E o \in Objs, ilist \in Ilists, op \in InsertRangeOps : insert_range(o, ilist, op)
    \/ \E o \in Objs, ilist \in Ilists, op \in InsertOrAssignRangeOps :
            insert_or_assign_range(o, ilist, op)
    \/ \E o \in Objs : dtor(o)

\* std::string(proxy) for the proxy that at or operator[] has just returned
ReadProxy == result.kind = "string_proxy" /\ string_proxy_read(result)

\* objects whose elements are accessed with at and operator[]
NextAccess ==
    \/ \E o \in Objs : info_default(o)
    \/ \E o \in Objs, key \in KeyArgs, value \in ValArgs : insert_or_assign(o, key, value)
    \/ \E o \in Objs, key \in KeyArgs : erase_key(o, key)
    \/ \E o \in Objs, key \in KeyArgs : at(o, key)
    \/ \E o \in AllObjs, key \in KeyArgs : at_const(o, key)
    \/ \E o \in Objs, key \in KeyArgs : subscript(o, key)
    \/ ReadProxy

\* erase(find(key)): erase of the iterator that find has just returned
EraseFound ==
    /\ last.op \in FindOps
    /\ result.kind = "iterator"
    /\ erase_pos(last.self, result.it)

\* the object, the keys and the iterators of NextErase: one object that holds up to
\* three keys
EraseObjs == {1}
EraseKeys == Keys \cup {"c"}
EraseIters == {iterator(h, p) : h \in Pool, p \in 0..Cardinality(EraseKeys)}

\* an object that is filled and from which elements are removed
NextErase ==
    \/ \E o \in EraseObjs : info_default(o)
    \/ \E o \in EraseObjs, key \in EraseKeys, value \in Vals : insert_or_assign(o, key, value)
    \/ \E o \in EraseObjs, key \in EraseKeys, op \in FindOps : find(o, key, op)
    \/ EraseFound
    \/ \E o \in EraseObjs, first \in EraseIters :
        \E last_ \in {it \in EraseIters : it.info_ = first.info_} : erase_range(o, first, last_)
    \/ \E o \in EraseObjs : clear(o)
    \/ \E o \in EraseObjs, key \in EraseKeys : extract_key(o, key)

\* objects that are filled and merged, two of which may hold the same handle
NextMerge ==
    \/ \E o \in Objs : info_default(o)
    \/ WrapAlias
    \/ \E o \in Objs, key \in Keys, value \in Vals : insert_or_assign(o, key, value)
    \/ \E o \in Objs, source \in Objs : merge(o, source)

\* an object that is filled and from which erase_if removes elements
NextEraseIf ==
    \/ \E o \in EraseObjs : info_default(o)
    \/ \E o \in EraseObjs, key \in EraseKeys, value \in Vals : insert_or_assign(o, key, value)
    \/ \E o \in EraseObjs, pred \in Preds : erase_if(o, pred)

\* the comparison of two iterators, bound to a handle or to none (MPI_INFO_NULL),
\* const or not.  The operators read nothing but their operands, so that the program
\* makes one comparison after an operation on an object, not a comparison after another.
Compare ==
    /\ last.op \notin RelationalOps
    /\ \E op \in RelationalOps, lhs \in IterArgs, rhs \in IterArgs, is_const \in BOOLEAN,
          is_rhs_const \in BOOLEAN : iterator_relational(op, lhs, is_const, rhs, is_rhs_const)

\* objects of up to two entries, their iterators, and comparisons
NextIter ==
    \/ \E o \in Objs : info_default(o)
    \/ \E o \in Objs, key \in Keys, value \in Vals \cap FillVals : insert_or_assign(o, key, value)
    \/ \E o \in Objs, op \in BeginOps : begin(o, op)
    \/ \E o \in Objs, op \in EndOps : end(o, op)
    \/ Compare

\* objects that are filled and searched
NextLookup ==
    \/ \E o \in Objs : info_default(o)
    \/ \E o \in Objs, key \in Keys, value \in Vals : insert_or_assign(o, key, value)
    \/ \E o \in Objs, key \in Keys : erase_key(o, key)
    \/ \E o \in Objs, op \in EndOps : end(o, op)
    \/ \E o \in Objs, key \in KeyArgs : count(o, key)
    \/ \E o \in Objs, key \in KeyArgs, op \in FindOps : find(o, key, op)
    \/ \E o \in Objs, key \in KeyArgs : contains(o, key)
    \/ \E o \in Objs, key \in KeyArgs, op \in EqualRangeOps : equal_range(o, key, op)

\* the values of the objects that are compared: two of one length and a longer one
EqVals == Vals \cup {"11"}

\* objects that are filled and compared
NextEq ==
    \/ \E o \in Objs : info_default(o)
    \/ \E o \in Objs, key \in Keys, value \in EqVals : insert_or_assign(o, key, value)
    \/ \E lhs \in Objs, rhs \in Objs : operator_eq(lhs, rhs)
    \/ \E lhs \in Objs, rhs \in Objs : operator_ne(lhs, rhs)

\* objects that are created, filled, destroyed and observed
NextObserve ==
    \/ \E o \in Objs : info_default(o)
    \/ \E o \in Objs : dtor(o)
    \/ \E o \in Objs, key \in Keys, value \in Vals : insert_or_assign(o, key, value)
    \/ \E o \in Objs : empty(o)
    \/ \E o \in Objs : size(o)
    \/ \E o \in Objs, op \in BeginOps : begin(o, op)
    \/ \E o \in Objs, op \in EndOps : end(o, op)
    \/ \E o \in Objs : keys(o)
    \/ \E o \in Objs : values(o)

Spec == Init /\ [][Next]_vars
SpecOwn == Init /\ [][NextOwn]_vars
SpecCopy == Init /\ [][NextCopy]_vars
SpecElem == Init /\ [][NextElem]_vars
\* *it on a const_iterator of a handle that has not been freed
DereferenceConst ==
    \E it \in IterArgs : it.info_ \in allocated /\ iterator_subscript("*it", it, TRUE, 0)

\* objects that are filled, moved from, and read
NextReadOnly ==
    \/ \E o \in Objs : info_default(o)
    \/ \E o \in Objs, other \in Objs : info_move(o, other)
    \/ \E o \in Objs, key \in Keys, value \in Vals \cap FillVals : insert_or_assign(o, key, value)
    \/ Observe
    \/ \E o \in Objs : max_size(o)
    \/ \E o \in Objs : get(o)
    \/ \E o \in Objs : freeable(o)
    \/ \E o \in Objs, key \in Keys : at_const(o, key)
    \/ \E o \in Objs, key \in Keys : count(o, key)
    \/ \E o \in Objs, key \in Keys, op \in FindOps : find(o, key, op)
    \/ \E o \in Objs, key \in Keys : contains(o, key)
    \/ \E o \in Objs, key \in Keys, op \in EqualRangeOps : equal_range(o, key, op)
    \/ \E lhs \in Objs, rhs \in Objs : operator_eq(lhs, rhs)
    \/ \E lhs \in Objs, rhs \in Objs : operator_ne(lhs, rhs)
    \/ DereferenceConst

\* every construction but info(MPI_Info, bool), every assignment, every swap, and
\* destruction
NextLife ==
    \/ Construct
    \/ \E o \in Objs, init \in FillIlists : info_range(o, init)
    \/ Assign
    \/ \E lhs \in Objs, rhs \in Objs : swap_free(lhs, rhs)
    \/ \E a \in Objs, b \in Objs : std_swap(a, b)

\* objects that are filled and whose handles pass from one to the other
NextRebind ==
    \/ \E o \in Objs : info_default(o)
    \/ \E o \in Objs : dtor(o)
    \/ \E o \in Objs, key \in Keys, value \in Vals \cap FillVals : insert_or_assign(o, key, value)
    \/ \E o \in Objs, other \in Objs : info_move(o, other)
    \/ \E o \in Objs, rhs \in Objs : assign_move(o, rhs)
    \/ \E o \in Objs, other \in Objs : swap(o, other)
    \/ \E lhs \in Objs, rhs \in Objs : swap_free(lhs, rhs)
    \/ \E a \in Objs, b \in Objs : std_swap(a, b)

\* *it, it-> and it[n] on an iterator of a handle that has not been freed
DerefOps == {"*it", "it->", "it[n]"}
Dereference ==
    \E it \in EraseIters, is_const \in BOOLEAN :
        /\ it.info_ \in allocated
        /\ \/ \E op \in {"*it", "it->"} : iterator_subscript(op, it, is_const, 0)
           \/ \E n \in {-1, 1} : iterator_subscript("it[n]", it, is_const, n)

\* an object whose entries are set and removed, and iterators of it that are
\* dereferenced, before or after
NextDeref ==
    \/ \E o \in EraseObjs : info_default(o)
    \/ \E o \in EraseObjs, key \in EraseKeys, value \in Vals : insert_or_assign(o, key, value)
    \/ \E o \in EraseObjs, pos \in EraseIters : erase_pos(o, pos)
    \/ \E o \in EraseObjs, pos \in EraseIters : extract_pos(o, pos)
    \/ \E o \in EraseObjs, op \in EndOps : end(o, op)
    \/ Dereference

\* the offsets the program passes: every int, and the smallest, the largest and two
\* other std::ptrdiff_t that are no int
Offsets == Ints \cup {PTRDIFF_MIN, -(2 ^ IntBits), 2 ^ IntBits, PTRDIFF_MAX}

\* the iterator the last operation returned, or left behind, is moved
Advance ==
    /\ result.kind \in {"iterator", "modified"}
    /\ \E it \in {result.it} \cup (IF result.kind = "modified" THEN {result.self} ELSE {}) :
        \/ \E op \in StepOps : iterator_modify(op, it, 0)
        \/ \E op \in OffsetOps, inc \in Offsets : iterator_modify(op, it, inc)

\* an object that is filled, and iterators of it that are moved
NextArith ==
    \/ \E o \in EraseObjs : info_default(o)
    \/ \E o \in EraseObjs, key \in Keys, value \in Vals \cap FillVals : insert_or_assign(o, key, value)
    \/ \E o \in EraseObjs, op \in BeginOps : begin(o, op)
    \/ \E o \in EraseObjs, op \in EndOps : end(o, op)
    \/ Advance

\* objects, some of them moved-from or not freeable, that are swapped
NextSwap ==
    \/ \E o \in Objs : info_default(o)
    \/ \E o \in Objs, other \in Objs : info_move(o, other)
    \/ \E o \in Objs : dtor(o)
    \/ WrapAlias
    \/ \E o \in Objs, key \in Keys, value \in Vals \cap FillVals : insert_or_assign(o, key, value)
    \/ \E o \in Objs, other \in Objs : swap(o, other)
    \/ \E lhs \in Objs, rhs \in Objs : swap_free(lhs, rhs)
    \/ \E a \in Objs, b \in Objs : std_swap(a, b)

SpecMoved == Init /\ [][NextMoved]_vars
SpecRange == Init /\ [][NextRange]_vars
SpecAccess == Init /\ [][NextAccess]_vars
SpecErase == Init /\ [][NextErase]_vars
SpecMerge == Init /\ [][NextMerge]_vars
SpecEraseIf == Init /\ [][NextEraseIf]_vars
SpecIter == Init /\ [][NextIter]_vars
SpecLookup == Init /\ [][NextLookup]_vars
SpecEq == Init /\ [][NextEq]_vars
SpecObserve == Init /\ [][NextObserve]_vars
SpecSwap == Init /\ [][NextSwap]_vars
SpecArith == Init /\ [][NextArith]_vars
SpecDeref == Init /\ [][NextDeref]_vars
SpecRebind == Init /\ [][NextRebind]_vars
SpecLife == Init /\ [][NextLife]_vars
SpecReadOnly == Init /\ [][NextReadOnly]_vars

\* ------------------------------------------------------------------------
\* Ownership of the handle
\* ------------------------------------------------------------------------
Valid(w) == w.live /\ w.info_ # MPI_INFO_NULL
\* the calls of the last operation that free a handle
Frees(cs) == {i \in 1..Len(cs) : cs[i][1] = "MPI_Info_free"}
Failed(res) == res = AssertFailed

\* C1: the destructor calls MPI_Info_free on the object's handle exactly when the
\* object is freeable and its handle is not MPI_INFO_NULL; destroying a moved-from
\* or a non-freeable object issues no call.
C1_DestructorFreesIffOwned ==
    last.op = "~info" =>
        LET w == last.before[last.self] IN
        /\ (w.is_freeable_ /\ w.info_ # MPI_INFO_NULL)
                => calls = << <<"MPI_Info_free", w.info_>> >>
        /\ ~(w.is_freeable_ /\ w.info_ # MPI_INFO_NULL) => calls = <<>>

\* a non-freeable object that holds a handle has been destroyed
C1_Witness ==
    /\ last.op = "~info"
    /\ last.before[last.self].info_ # MPI_INFO_NULL
    /\ ~last.before[last.self].is_freeable_
    /\ calls = <<>>

\* C2: without info(MPI_Info, bool), no two live objects hold the same handle
\* unless it is MPI_INFO_NULL.
C2_HandleHasOneOwner ==
    \A o, p \in AllObjs :
        (o # p /\ Valid(objs[o]) /\ Valid(objs[p])) => objs[o].info_ # objs[p].info_

\* two objects hold handles after a move construction, a move assignment or a swap
C2_Witness ==
    /\ last.op \in {"info(info&&)", "operator=(info&&)", "swap"}
    /\ \E o, p \in Objs : o # p /\ Valid(objs[o]) /\ Valid(objs[p])

\* C3: MPI_Info_free is never called on MPI_INFO_ENV.
C3_EnvNeverFreed ==
    \A i \in 1..Len(calls) : calls[i] # <<"MPI_Info_free", MPI_INFO_ENV>>

\* an object that wrapped MPI_INFO_ENV has been destroyed or assigned to
C3_Witness ==
    /\ last.op \in {"~info", "operator=(const info&)", "operator=(info&&)", "operator=(ilist)"}
    /\ last.self \in Objs
    /\ last.before[last.self].info_ = MPI_INFO_ENV
    /\ ~Failed(result)

\* C5: move construction gives the new object the handle and the flag of other,
\* leaves other with (MPI_INFO_NULL, false), issues no MPI call and changes no
\* entry of any handle.
C5_MoveConstructionSteals ==
    [][last'.op = "info(info&&)" =>
        LET m == last'.self
            w == last'.args[1]
        IN  /\ objs'[m].live
            /\ objs'[m].info_ = objs[w].info_
            /\ objs'[m].is_freeable_ = objs[w].is_freeable_
            /\ objs'[w] = Object(MPI_INFO_NULL, FALSE)
            /\ calls' = <<>>
            /\ store' = store
            /\ allocated' = allocated]_vars

\* an object that owns entries has been move constructed from
C5_Witness ==
    /\ last.op = "info(info&&)"
    /\ objs[last.self].info_ \in Pool
    /\ objs[last.self].is_freeable_
    /\ store[objs[last.self].info_] # <<>>

\* the object w refers to an MPI_Info object that exists: its handle is
\* MPI_INFO_ENV or one of the allocated handles al
RefersToInfo(w, al) == w.live /\ (w.info_ = MPI_INFO_ENV \/ w.info_ \in al)

\* C7: a = b with b valid.  For distinct objects a's handle is freed iff a was
\* freeable and not moved-from, a gets a newly duplicated handle with b's entries
\* and is freeable, and b is unchanged; a = a does nothing.
C7_CopyAssignment ==
    [][(last'.op = "operator=(const info&)" /\ RefersToInfo(objs[last'.args[1]], allocated)) =>
        LET a == last'.self
            b == last'.args[1]
            owned == objs[a].is_freeable_ /\ objs[a].info_ # MPI_INFO_NULL
        IN  IF a = b
            THEN calls' = <<>> /\ objs' = objs /\ store' = store /\ allocated' = allocated
            ELSE /\ result' = Void
                 /\ owned => (Frees(calls') = {1} /\ calls'[1][2] = objs[a].info_)
                 /\ ~owned => Frees(calls') = {}
                 /\ calls'[Len(calls')] = <<"MPI_Info_dup", objs[b].info_, objs'[a].info_>>
                 /\ objs'[a].info_ \in allocated' \ (allocated \ {objs[a].info_})
                 /\ objs'[a].info_ # objs[b].info_
                 /\ objs'[a].is_freeable_
                 /\ store'[objs'[a].info_] = store[objs[b].info_]
                 /\ objs'[b] = objs[b]
                 /\ RefersToInfo(objs'[b], allocated')
                 /\ store'[objs[b].info_] = store[objs[b].info_]]_vars

\* C8: a = std::move(b) for distinct objects: a's handle is freed at most once and
\* only if a was freeable and not moved-from; a takes b's handle and flag; b is left
\* with (MPI_INFO_NULL, false); a is valid afterwards iff b was valid before, where
\* valid is what info.hpp calls valid: not MPI_INFO_NULL.
C8_MoveAssignment ==
    [][(last'.op = "operator=(info&&)" /\ last'.self # last'.args[1]) =>
        LET a == last'.self
            b == last'.args[1]
            owned == objs[a].is_freeable_ /\ objs[a].info_ # MPI_INFO_NULL
        IN  /\ Cardinality(Frees(calls')) <= 1
            /\ Frees(calls') # {} => (owned /\ calls' = << <<"MPI_Info_free", objs[a].info_>> >>)
            /\ Frees(calls') = {} => calls' = <<>>
            /\ objs'[a].info_ = objs[b].info_
            /\ objs'[a].is_freeable_ = objs[b].is_freeable_
            /\ objs'[b] = Object(MPI_INFO_NULL, FALSE)
            /\ Valid(objs'[a]) <=> Valid(objs[b])
            /\ \A h \in Handles \ {objs[a].info_} : store'[h] = store[h]]_vars

\* a freeable object with a handle has been move assigned a valid object
C8_Witness ==
    /\ last.op = "operator=(info&&)"
    /\ last.self # last.args[1]
    /\ calls # <<>>
    /\ Valid(objs[last.self])
    /\ store[objs[last.self].info_] # <<>>

\* C4: a copy constructed object has a handle of its own with the entries of the
\* source and is freeable; MPI_Info_set and MPI_Info_delete through one object
\* change neither the entries nor the members of any other object.
C4_CopyIsDeep ==
    [][/\ (last'.op = "info(const info&)" /\ ~Failed(result')) =>
            LET c == last'.self
                w == last'.args[1]
            IN  /\ objs'[c].live
                /\ objs'[c].info_ # MPI_INFO_NULL
                /\ objs'[c].info_ # objs[w].info_
                /\ objs'[c].is_freeable_
                /\ Entries(store'[objs'[c].info_]) = Entries(store[objs[w].info_])
                /\ objs'[w] = objs[w]
                /\ store'[objs[w].info_] = store[objs[w].info_]
       /\ (last'.op \in {"operator[]=", "erase(key)"}) =>
            \A p \in AllObjs \ {last'.self} :
                /\ objs'[p] = objs[p]
                /\ Valid(objs[p]) => store'[objs[p].info_] = store[objs[p].info_]]_vars

\* an object has been modified while another object is valid, and its entries differ
\* from those of info::env
C4_Witness ==
    /\ last.op \in {"operator[]=", "erase(key)"}
    /\ calls # <<>>
    /\ \E p \in Objs \ {last.self} : Valid(objs[p])
    /\ Entries(store[objs[last.self].info_]) # Entries(store[MPI_INFO_ENV])
    /\ store[MPI_INFO_ENV] # <<>>

\* ------------------------------------------------------------------------
\* Insertion
\* ------------------------------------------------------------------------
\* the iterator it refers to handle h at a position that holds key in the pairs s
PointsTo(it, h, s, key) ==
    /\ it.info_ = h
    /\ it.pos_ \in 0..(Len(s) - 1)
    /\ MPI_Info_get_nthkey(s, it.pos_) = key
\* the pairs s and s2 agree on every key but key
SameButFor(s, s2, key) ==
    \A k \in (KeySet(s) \cup KeySet(s2)) \ {key} :
        HasKey(s, k) /\ HasKey(s2, k) /\ ValueOf(s, k) = ValueOf(s2, k)
SetCalls(cs) == {i \in 1..Len(cs) : cs[i][1] = "MPI_Info_set"}

\* C9: insert(K, V) on a valid object.  If K is present the pairs are unchanged,
\* MPI_Info_set is not called and the result is (iterator to K, false); if K is
\* absent exactly the pair [K, V] is added and the result is (iterator to K, true).
C9_InsertFirstWins ==
    [][(last'.op = "insert" /\ ~Failed(result')) =>
        LET h == objs[last'.self].info_
            K == last'.args[1]
            V == last'.args[2]
            s == store[h]
            s2 == store'[h]
        IN  /\ objs' = objs
            /\ \A g \in Handles \ {h} : store'[g] = store[g]
            /\ PointsTo(result'.first, h, s2, K)
            /\ IF HasKey(s, K)
               THEN /\ s2 = s
                    /\ SetCalls(calls') = {}
                    /\ result'.second = FALSE
               ELSE /\ Entries(s2) = Entries(s) \cup {<<K, V>>}
                    /\ Len(s2) = Len(s) + 1
                    /\ result'.second = TRUE]_vars

\* insert was called with a key that was present with another value, next to a second key
C9_Witness ==
    /\ last.op = "insert"
    /\ ~Failed(result)
    /\ result.second = FALSE
    /\ Len(store[objs[last.self].info_]) = 2
    /\ ValueOf(store[objs[last.self].info_], last.args[1]) # last.args[2]

\* C10: after insert_or_assign(K, V) or (*this)[K] = V on a valid object at(K)
\* gives V, every other key has kept its value, the size has grown by one iff K was
\* absent; insert_or_assign returns (iterator to K, K was absent); and an
\* insert(K, V2) that follows leaves the value V.
C10_InsertOrAssignLastWins ==
    [][/\ (last'.op \in {"insert_or_assign", "operator[]="} /\ ~Failed(result')) =>
            LET h == objs[last'.self].info_
                K == last'.args[1]
                V == last'.args[2]
                s == store[h]
                s2 == store'[h]
            IN  /\ at_value(s2, K) = [kind |-> "string", value |-> V]
                /\ SameButFor(s, s2, K)
                /\ Len(s2) = Len(s) + (IF HasKey(s, K) THEN 0 ELSE 1)
                /\ last'.op = "insert_or_assign" =>
                        /\ result'.second = ~HasKey(s, K)
                        /\ PointsTo(result'.first, h, s2, K)
       /\ (/\ last.op \in {"insert_or_assign", "operator[]="}
           /\ ~Failed(result)
           /\ last'.op = "insert"
           /\ last'.self = last.self
           /\ last'.args[1] = last.args[1]) =>
            /\ at_value(store'[objs[last.self].info_], last.args[1])
                    = [kind |-> "string", value |-> last.args[2]]
            /\ ~Failed(result') => result'.second = FALSE]_vars

\* insert_or_assign has overwritten the value of a key that was present, next to a second key
C10_Witness ==
    /\ last.op = "insert_or_assign"
    /\ ~Failed(result)
    /\ result.second = FALSE
    /\ Len(store[objs[last.self].info_]) = 2
    /\ ValueOf(store[objs[last.self].info_], last.args[1]) = last.args[2]

\* ------------------------------------------------------------------------
\* Use of a moved-from object
\* ------------------------------------------------------------------------
MovedFrom(w) == w.live /\ w.info_ = MPI_INFO_NULL
\* the operations other than construction, destruction, move and swap, by the
\* object they are called on
MemberOps ==
    {"size", "empty"} \cup BeginOps \cup EndOps \cup RbeginOps \cup RendOps
    \cup {"at", "at const", "operator[]", "insert", "insert_or_assign"}
    \cup InsertRangeOps \cup InsertOrAssignRangeOps
    \cup {"clear", "erase(pos)", "erase(first,last)", "erase(key)", "extract(pos)", "extract(key)"}
    \cup {"merge", "count", "contains", "keys", "values", "erase_if"}
    \cup FindOps \cup EqualRangeOps \cup {"operator==", "operator!="}
\* the operations that take a second info object as their first argument
OperandOps == {"merge", "operator==", "operator!=", "info(const info&)", "operator=(const info&)"}
\* the last operation was called on, or with, an object in the moved-from state
UsedMovedFrom ==
    \/ last.op \in MemberOps /\ MovedFrom(last.before[last.self])
    \/ last.op \in OperandOps /\ MovedFrom(last.before[last.args[1]])

\* C6: an operation other than construction, destruction, move and swap that is
\* called on an object in the moved-from state, or with such an object as its
\* source, right-hand side or copied object, fails its assertion: it returns no
\* result, issues no MPI call and leaves every object as it was.
C6_MovedFromUseFails ==
    UsedMovedFrom => (result = AssertFailed /\ calls = <<>> /\ objs = last.before /\ pc = "aborted")

\* witness of C6: merge was called on a valid object with a moved-from source, and failed
C6_Witness ==
    /\ last.op = "merge"
    /\ Valid(last.before[last.self])
    /\ MovedFrom(last.before[last.args[1]])
    /\ result = AssertFailed
    /\ calls = <<>>

\* ------------------------------------------------------------------------
\* Ranges and initializer lists
\* ------------------------------------------------------------------------
\* the keys of a range, and the value of the last and of the first pair with key k in it
InputKeys(il) == {il[i][1] : i \in 1..Len(il)}
LastValue(il, k) ==
    il[CHOOSE i \in 1..Len(il) : il[i][1] = k /\ \A j \in (i + 1)..Len(il) : il[j][1] # k][2]
FirstValue(il, k) ==
    il[CHOOSE i \in 1..Len(il) : il[i][1] = k /\ \A j \in 1..(i - 1) : il[j][1] # k][2]

RangeCtorOps == {"info(ilist)", "info(first,last)"}

\* C11: after the construction of an object from a range or an initializer list, and
\* after insert_or_assign of a range or an initializer list, every key of the input
\* has the value of its last occurrence in the input; a constructed object has as
\* many entries as the input has distinct keys.
C11_LastOccurrenceWins ==
    [][(last'.op \in RangeCtorOps \cup InsertOrAssignRangeOps /\ result' = Void) =>
        LET il == last'.args[1]
            s2 == store'[objs'[last'.self].info_] IN
        /\ \A k \in InputKeys(il) : HasKey(s2, k) /\ ValueOf(s2, k) = LastValue(il, k)
        /\ last'.op \in RangeCtorOps =>
                MPI_Info_get_nkeys(s2) = Cardinality(InputKeys(il))]_vars

\* an object was constructed from a range in which a key occurs twice, with two values
C11_Witness ==
    /\ last.op \in RangeCtorOps
    /\ result = Void
    /\ Len(last.args[1]) > Cardinality(InputKeys(last.args[1]))
    /\ \E i, j \in 1..Len(last.args[1]) :
        i < j /\ last.args[1][i][1] = last.args[1][j][1] /\ last.args[1][i][2] # last.args[1][j][2]

\* C12: insert of a range or an initializer list leaves every key that was present
\* before the call with its value, gives every key of the input that was absent the
\* value of its first occurrence in the input, and adds no other key.
C12_InsertRangeFirstWins ==
    [][(last'.op \in InsertRangeOps /\ result' = Void) =>
        LET il == last'.args[1]
            s == store[objs[last'.self].info_]
            s2 == store'[objs'[last'.self].info_] IN
        /\ objs' = objs
        /\ \A k \in KeySet(s) : HasKey(s2, k) /\ ValueOf(s2, k) = ValueOf(s, k)
        /\ \A k \in InputKeys(il) \ KeySet(s) : HasKey(s2, k) /\ ValueOf(s2, k) = FirstValue(il, k)
        /\ KeySet(s2) = KeySet(s) \cup InputKeys(il)]_vars

\* a range in which a key occurs twice, with two values, was inserted into an object
\* that held another key: the key has the first of the two values
C12_Witness ==
    /\ last.op \in InsertRangeOps
    /\ result = Void
    /\ LET il == last.args[1]
           s == store[objs[last.self].info_] IN
       /\ KeySet(s) \ InputKeys(il) # {}
       /\ \E k \in InputKeys(il) :
            /\ FirstValue(il, k) # LastValue(il, k)
            /\ ValueOf(s, k) = FirstValue(il, k)

\* ------------------------------------------------------------------------
\* Element access
\* ------------------------------------------------------------------------
ProxyOf(op) == last.op = op /\ result.kind = "string_proxy" /\ last'.op = "operator std::string"

\* C13: at(K), mutable and const, on a valid object changes no entry; where K is
\* absent it throws std::out_of_range; where K is present it does not throw and
\* yields the value stored for K (the const overload as a string, the mutable one as
\* a proxy for K whose read gives that value and changes nothing).
C13_AtThrowsOrYields ==
    [][/\ (last'.op \in {"at", "at const"} /\ ~Failed(result')) =>
            LET key == last'.args[1]
                h == objs[last'.self].info_
                s == store[h] IN
            /\ store' = store
            /\ objs' = objs
            /\ ~HasKey(s, key) => result' = OutOfRange
            /\ HasKey(s, key) =>
                    result' = IF last'.op = "at" THEN string_proxy(h, key)
                              ELSE String(ValueOf(s, key))
       /\ ProxyOf("at") =>
            /\ result' = String(ValueOf(store[result.ptr_], result.key_))
            /\ store' = store]_vars

\* at(K) has thrown on a non-empty object without K
C13_Witness ==
    /\ last.op \in {"at", "at const"}
    /\ result = OutOfRange
    /\ Valid(objs[last.self])
    /\ store[objs[last.self].info_] # <<>>
    /\ ~HasKey(store[objs[last.self].info_], last.args[1])

\* C14: operator[](K) on a valid object throws nothing and calls nothing; the read of
\* the proxy it returns gives the stored value and changes nothing when K is present,
\* and when K is absent inserts K with the value " " (one entry more, the others
\* unchanged) and gives " ".
C14_SubscriptReadInserts ==
    [][/\ (last'.op = "operator[]" /\ ~Failed(result')) =>
            /\ result' = string_proxy(objs[last'.self].info_, last'.args[1])
            /\ calls' = <<>>
            /\ store' = store
            /\ objs' = objs
       /\ ProxyOf("operator[]") =>
            LET key == result.key_
                s == store[result.ptr_]
                s2 == store'[result.ptr_] IN
            /\ objs' = objs
            /\ \A h \in Handles \ {result.ptr_} : store'[h] = store[h]
            /\ IF HasKey(s, key)
               THEN result' = String(ValueOf(s, key)) /\ s2 = s
               ELSE /\ result' = String(" ")
                    /\ HasKey(s2, key)
                    /\ ValueOf(s2, key) = " "
                    /\ MPI_Info_get_nkeys(s2) = MPI_Info_get_nkeys(s) + 1
                    /\ SameButFor(s, s2, key)]_vars

\* the read of w[K] has inserted K with " " next to another key
C14_Witness ==
    /\ last.op = "operator std::string"
    /\ result = String(" ")
    /\ LET s == store[last.args[1].ptr_] IN
       /\ HasKey(s, last.args[1].key_)
       /\ ValueOf(s, last.args[1].key_) = " "
       /\ MPI_Info_get_nkeys(s) = 2

\* ------------------------------------------------------------------------
\* Removal of elements
\* ------------------------------------------------------------------------
\* C15: on a valid object that contains K, erase(find(K)) makes the size exactly one
\* smaller; afterwards contains(K) is false and every other key is present with the
\* value it had.
C15_EraseFound ==
    [][(/\ last.op \in FindOps
        /\ result.kind = "iterator"
        /\ HasKey(store[objs[last.self].info_], last.args[1])
        /\ last'.op = "erase(pos)"
        /\ last'.self = last.self
        /\ last'.args = <<result.it>>) =>
            LET K == last.args[1]
                s == store[objs[last.self].info_]
                s2 == store'[objs'[last.self].info_] IN
            /\ ~Failed(result')
            /\ objs' = objs
            /\ MPI_Info_get_nkeys(s2) = MPI_Info_get_nkeys(s) - 1
            /\ find_pos(s2, K, MPI_Info_get_nkeys(s2)) = MPI_Info_get_nkeys(s2)
            /\ ~HasKey(s2, K)
            /\ SameButFor(s, s2, K)]_vars

\* erase(find(K)) has removed a key that was not at position 0 and left two others
C15_Witness ==
    /\ last.op = "erase(pos)"
    /\ result.kind = "iterator"
    /\ result.it.pos_ > 0
    /\ \E i \in 1..Len(calls) : calls[i][1] = "MPI_Info_delete"
    /\ MPI_Info_get_nkeys(store[objs[last.self].info_]) = 2

\* the positions in the log cs of the calls of the MPI function f
CallsOf(cs, f) == {i \in 1..Len(cs) : cs[i][1] = f}

\* C16: an erase(first, last) that passes its checks removes exactly the keys that
\* were at the positions [first, last) when it was called, and no other key, however
\* each delete reorders the remaining keys: every MPI_Info_get_nthkey of the range is
\* issued before the first MPI_Info_delete.  The size decreases by last - first, the
\* pairs that remain keep their values, and the iterator returned is at the position
\* of first.
C16_EraseRangeSnapshot ==
    [][(last'.op = "erase(first,last)" /\ ~Failed(result')) =>
        LET first == last'.args[1]
            last_ == last'.args[2]
            h == objs[last'.self].info_
            s == store[h]
            s2 == store'[h]
            range == {s[i][1] : i \in (first.pos_ + 1)..last_.pos_} IN
        /\ objs' = objs
        /\ KeySet(s2) = KeySet(s) \ range
        /\ \A k \in KeySet(s2) : ValueOf(s2, k) = ValueOf(s, k)
        /\ MPI_Info_get_nkeys(s2) = MPI_Info_get_nkeys(s) - (last_.pos_ - first.pos_)
        /\ result' = Iterator(iterator(h, first.pos_))
        /\ Cardinality(CallsOf(calls', "MPI_Info_get_nthkey")) = last_.pos_ - first.pos_
        /\ {calls'[i][3] : i \in CallsOf(calls', "MPI_Info_get_nthkey")}
                = first.pos_..(last_.pos_ - 1)
        /\ {calls'[i][3] : i \in CallsOf(calls', "MPI_Info_delete")} = range
        /\ \A i \in CallsOf(calls', "MPI_Info_get_nthkey") :
           \A j \in CallsOf(calls', "MPI_Info_delete") : i < j]_vars

\* erase(first, last) has removed the keys at the positions 1 and 2 of three
C16_Witness ==
    /\ last.op = "erase(first,last)"
    /\ result.kind = "iterator"
    /\ last.args[1].pos_ = 1
    /\ last.args[2].pos_ = 3
    /\ Cardinality(CallsOf(calls, "MPI_Info_delete")) = 2
    /\ MPI_Info_get_nkeys(store[objs[last.self].info_]) = 1

\* C17: clear() on a valid object with n entries ends after exactly n iterations, each
\* reading the key at position 0 and deleting a key the object still holds (the first
\* one the key at position 0 of the call's start), whatever order each delete leaves;
\* afterwards the object has no entry (size() = 0, empty()), and its handle and
\* its freeable flag are unchanged.
C17_ClearRemovesAll ==
    [][(last'.op = "clear" /\ ~Failed(result')) =>
        LET h == objs[last'.self].info_
            s == store[h]
            n == MPI_Info_get_nkeys(s) IN
        /\ objs' = objs
        /\ allocated' = allocated
        /\ Len(calls') = 1 + 2 * n
        /\ calls'[1] = <<"MPI_Info_get_nkeys", h>>
        /\ \A i \in 1..n :
            /\ calls'[2 * i] = <<"MPI_Info_get_nthkey", h, 0>>
            /\ calls'[2 * i + 1][1] = "MPI_Info_delete"
            /\ calls'[2 * i + 1][2] = h
        /\ n > 0 => calls'[3][3] = MPI_Info_get_nthkey(s, 0)
        /\ {calls'[2 * i + 1][3] : i \in 1..n} = KeySet(s)
        /\ MPI_Info_get_nkeys(store'[h]) = 0
        /\ store'[h] = <<>>
        /\ \A g \in Handles \ {h} : store'[g] = store[g]]_vars

\* clear() has emptied an object of three entries: c was at position 0 at first,
\* and a after c was deleted
C17_Witness ==
    /\ last.op = "clear"
    /\ result = Void
    /\ Len(calls) = 7
    /\ calls[3][3] = "c"
    /\ calls[5][3] = "a"
    /\ store[objs[last.self].info_] = <<>>

\* C18: extract(K) on a valid object: if K is present it returns the pair of K and the
\* value K had, and afterwards K is absent, the size is one smaller and every other
\* entry is unchanged; if K is absent it returns std::nullopt and changes no entry.
C18_ExtractKey ==
    [][(last'.op = "extract(key)" /\ ~Failed(result')) =>
        LET K == last'.args[1]
            h == objs[last'.self].info_
            s == store[h]
            s2 == store'[h] IN
        /\ objs' = objs
        /\ \A g \in Handles \ {h} : store'[g] = store[g]
        /\ IF HasKey(s, K)
           THEN /\ result' = Optional(K, ValueOf(s, K))
                /\ ~HasKey(s2, K)
                /\ MPI_Info_get_nkeys(s2) = MPI_Info_get_nkeys(s) - 1
                /\ SameButFor(s, s2, K)
           ELSE /\ result' = Nullopt
                /\ s2 = s]_vars

\* extract(K) has returned the pair of K and left two other entries
C18_Witness ==
    /\ last.op = "extract(key)"
    /\ result.kind = "optional"
    /\ result.first = last.args[1]
    /\ result.second = "2"
    /\ ~HasKey(store[objs[last.self].info_], last.args[1])
    /\ MPI_Info_get_nkeys(store[objs[last.self].info_]) = 2

\* ------------------------------------------------------------------------
\* merge
\* ------------------------------------------------------------------------
\* C19: after merge(source) on two distinct valid objects, *this holds the entries
\* it had, unchanged, and in addition exactly the entries of source whose key it did
\* not have; source holds exactly those of its entries whose key *this already had;
\* the union of the keys of the two is what it was.  When source is *this nothing
\* changes.
C19_Merge ==
    [][(last'.op = "merge" /\ ~Failed(result')) =>
        LET h == objs[last'.self].info_
            hs == objs[last'.args[1]].info_
            t == store[h]
            s == store[hs]
            t2 == store'[h]
            s2 == store'[hs] IN
        /\ objs' = objs
        /\ \A g \in Handles \ {h, hs} : store'[g] = store[g]
        /\ IF last'.args[1] = last'.self
           THEN store' = store /\ calls' = <<>>
           ELSE /\ \A k \in KeySet(t) : HasKey(t2, k) /\ ValueOf(t2, k) = ValueOf(t, k)
                /\ KeySet(t2) = KeySet(t) \cup KeySet(s)
                /\ \A k \in KeySet(s) \ KeySet(t) : ValueOf(t2, k) = ValueOf(s, k)
                /\ KeySet(s2) = KeySet(s) \cap KeySet(t)
                /\ \A k \in KeySet(s2) : ValueOf(s2, k) = ValueOf(s, k)
                /\ KeySet(t2) \cup KeySet(s2) = KeySet(t) \cup KeySet(s)]_vars

\* merge has moved one entry of source into *this and left in source the entry whose
\* key *this had, with another value
C19_Witness ==
    /\ last.op = "merge"
    /\ result = Void
    /\ last.args[1] # last.self
    /\ LET t2 == store[objs[last.self].info_]
           s2 == store[objs[last.args[1]].info_] IN
       /\ objs[last.self].info_ # objs[last.args[1]].info_
       /\ MPI_Info_get_nkeys(t2) = 2
       /\ MPI_Info_get_nkeys(s2) = 1
       /\ ValueOf(t2, s2[1][1]) # s2[1][2]
       /\ Cardinality(CallsOf(calls, "MPI_Info_delete")) = 1

\* C20: within merge(source), the enumeration of source is one pass of
\* MPI_Info_get_nthkey over the positions 0, 1, ... of source, and no MPI_Info_delete
\* on source's handle is issued before the last of them; every key deleted from
\* source was set in *this before.
C20_MergeEnumeratesThenDeletes ==
    [][(last'.op = "merge" /\ ~Failed(result') /\ last'.args[1] # last'.self) =>
        LET h == objs[last'.self].info_
            hs == objs[last'.args[1]].info_
            reads == {i \in CallsOf(calls', "MPI_Info_get_nthkey") : calls'[i][2] = hs}
            deletes == {i \in CallsOf(calls', "MPI_Info_delete") : calls'[i][2] = hs}
            sets == {i \in CallsOf(calls', "MPI_Info_set") : calls'[i][2] = h} IN
        /\ Cardinality(reads) = MPI_Info_get_nkeys(store[hs])
        /\ \A i \in reads : calls'[i][3] = Cardinality({j \in reads : j < i})
        /\ \A i \in reads : \A j \in deletes : i < j
        /\ \A j \in deletes : \E i \in sets : i < j /\ calls'[i][3] = calls'[j][3]
        /\ CallsOf(calls', "MPI_Info_delete") = deletes]_vars

\* merge has enumerated two entries of source and moved both
C20_Witness ==
    /\ last.op = "merge"
    /\ result = Void
    /\ Cardinality(CallsOf(calls, "MPI_Info_get_nthkey")) = 2
    /\ Cardinality(CallsOf(calls, "MPI_Info_set")) = 2
    /\ Cardinality(CallsOf(calls, "MPI_Info_delete")) = 2

\* ------------------------------------------------------------------------
\* erase_if
\* ------------------------------------------------------------------------
\* C21: erase_if(c, pred) removes exactly the entries whose pair of key and value, as
\* stored when the call started, satisfies pred, and leaves every other entry as it
\* was; pred is called exactly once for each entry, and no MPI_Info_delete is issued
\* before every entry has been read and tested.
C21_EraseIf ==
    [][(last'.op = "erase_if" /\ ~Failed(result')) =>
        LET pred == last'.args[1]
            h == objs[last'.self].info_
            s == store[h]
            s2 == store'[h]
            tests == CallsOf(calls', "pred")
            reads == CallsOf(calls', "MPI_Info_get_nthkey")
            deletes == CallsOf(calls', "MPI_Info_delete") IN
        /\ objs' = objs
        /\ \A g \in Handles \ {h} : store'[g] = store[g]
        /\ KeySet(s2) = {k \in KeySet(s) : <<k, ValueOf(s, k)>> \notin pred}
        /\ \A k \in KeySet(s2) : ValueOf(s2, k) = ValueOf(s, k)
        /\ Cardinality(tests) = MPI_Info_get_nkeys(s)
        /\ {<<calls'[i][2], calls'[i][3]>> : i \in tests} = {s[i] : i \in 1..Len(s)}
        /\ Cardinality(reads) = MPI_Info_get_nkeys(s)
        /\ {calls'[j][3] : j \in deletes} = KeySet(s) \ KeySet(s2)
        /\ \A i \in tests \cup reads : \A j \in deletes : i < j]_vars

\* erase_if has removed two of three entries, the first and the last one tested
C21_Witness ==
    /\ last.op = "erase_if"
    /\ result = Void
    /\ Cardinality(CallsOf(calls, "pred")) = 3
    /\ Cardinality(CallsOf(calls, "MPI_Info_delete")) = 2
    /\ <<calls[5][2], calls[5][3]>> \in last.args[1]
    /\ <<calls[9][2], calls[9][3]>> \notin last.args[1]
    /\ <<calls[13][2], calls[13][3]>> \in last.args[1]
    /\ MPI_Info_get_nkeys(store[objs[last.self].info_]) = 1

\* ------------------------------------------------------------------------
\* Lookup
\* ------------------------------------------------------------------------
\* the operation of last' is called on the object of last, right after the operation
\* of last, which has changed nothing
Then(ops, ops2) ==
    /\ last.op \in ops
    /\ ~Failed(result)
    /\ last'.op \in ops2
    /\ ~Failed(result')
    /\ last'.self = last.self

\* C22: on a valid object, for every key K: count(K) is 0 or 1, and it is 1 exactly
\* when contains(K) is true, which is exactly when find(K) differs from end(); when K
\* is present find(K) is at a position that holds K and equal_range(K) is
\* (find(K), find(K) + 1); when K is absent find(K) is end() and equal_range(K) is
\* (end(), end()).
C22_LookupAgrees ==
    [][LET K == last'.args[1]
           s == store[objs[last'.self].info_]
           size_ == MPI_Info_get_nkeys(s) IN
       /\ (last'.op = "count" /\ ~Failed(result')) =>
            /\ result' \in {Size(0), Size(1)}
            /\ result' = Size(1) <=> HasKey(s, K)
       /\ (last'.op = "contains" /\ ~Failed(result')) => result' = Bool(HasKey(s, K))
       /\ (last'.op \in FindOps /\ ~Failed(result') /\ HasKey(s, K)) =>
            /\ result'.it.info_ = objs[last'.self].info_
            /\ result'.it.pos_ \in 0..(size_ - 1)
            /\ MPI_Info_get_nthkey(s, result'.it.pos_) = K
       /\ Then(EndOps, FindOps) =>
            /\ iterator_ne(result'.it, result.it) = Bool(HasKey(s, K))
            /\ ~HasKey(s, K) => result'.it = result.it
       /\ (Then(FindOps, EqualRangeOps) /\ last'.args = last.args /\ HasKey(s, K)) =>
            /\ result'.first = result.it
            /\ result'.second = iterator_plus(result.it, 1)
       /\ (Then(EndOps, EqualRangeOps) /\ ~HasKey(s, K)) =>
            /\ result'.first = result.it
            /\ result'.second = result.it]_vars

\* equal_range(K) has returned the positions 1 and 2 for the key K at position 1
C22_Witness ==
    /\ last.op \in EqualRangeOps
    /\ result.kind = "range"
    /\ result.first.pos_ = 1
    /\ result.second.pos_ = 2
    /\ MPI_Info_get_nthkey(store[objs[last.self].info_], 1) = last.args[1]

\* ------------------------------------------------------------------------
\* Comparison of info objects
\* ------------------------------------------------------------------------
\* lhs and rhs hold the same number of pairs, and every key of lhs is in rhs with the
\* same value
SameEntries(sl, sr) ==
    /\ MPI_Info_get_nkeys(sl) = MPI_Info_get_nkeys(sr)
    /\ \A k \in KeySet(sl) : HasKey(sr, k) /\ ValueOf(sr, k) = ValueOf(sl, k)

\* C23: on valid objects lhs == rhs is true exactly when both have the same size and
\* every key of lhs is in rhs with the same value, which is when both hold the same
\* set of pairs, in whatever order each handle enumerates them; an object equals
\* itself; rhs == lhs gives what lhs == rhs has given; when the sizes differ the result
\* is false and no key and no value has been read; lhs != rhs is the negation.
C23_Equality ==
    [][LET sl == store[objs[last'.self].info_]
           sr == store[objs[last'.args[1]].info_] IN
       /\ (last'.op = "operator==" /\ ~Failed(result')) =>
            /\ result' = Bool(SameEntries(sl, sr))
            /\ result' = Bool(Entries(sl) = Entries(sr))
            /\ last'.args[1] = last'.self => result' = Bool(TRUE)
            /\ MPI_Info_get_nkeys(sl) # MPI_Info_get_nkeys(sr) =>
                    /\ result' = Bool(FALSE)
                    /\ \A i \in 1..Len(calls') : calls'[i][1] = "MPI_Info_get_nkeys"
            /\ store' = store
       /\ (last'.op = "operator!=" /\ ~Failed(result')) =>
            /\ result' = Bool(~SameEntries(sl, sr))
            /\ store' = store
       /\ (/\ last.op = "operator=="
           /\ ~Failed(result)
           /\ last'.op \in {"operator==", "operator!="}
           /\ ~Failed(result')) =>
            /\ (last'.op = "operator==" /\ last'.self = last.args[1] /\ last'.args[1] = last.self)
                    => result' = result
            /\ (last'.op = "operator!=" /\ last'.self = last.self /\ last'.args = last.args)
                    => result'.value = ~result.value]_vars

\* two objects that enumerate the same two pairs in different orders have compared equal
C23_Witness ==
    /\ last.op = "operator=="
    /\ result = Bool(TRUE)
    /\ LET sl == store[objs[last.self].info_]
           sr == store[objs[last.args[1]].info_] IN
       /\ MPI_Info_get_nkeys(sl) = 2
       /\ sl # sr
       /\ sl[1][2] # sl[2][2]

\* ------------------------------------------------------------------------
\* Size and iterators
\* ------------------------------------------------------------------------
\* C24: on a valid object, with the mutable, the const and the c-prefixed pair alike,
\* end() - begin() is size() and begin() == end() holds exactly when empty() does:
\* size() is the number of pairs of the handle, empty() is whether that is 0, and an
\* end() called right after a begin() is that number of positions behind it.
C24_DistanceIsSize ==
    [][LET n == MPI_Info_get_nkeys(store[objs[last'.self].info_]) IN
       /\ (last'.op = "size" /\ ~Failed(result')) => result' = Size(n)
       /\ (last'.op = "empty" /\ ~Failed(result')) => result' = Bool(n = 0)
       /\ Then(BeginOps, EndOps) =>
            /\ iterator_difference(result'.it, result.it) = Difference(n)
            /\ iterator_eq(result.it, result'.it) = Bool(n = 0)]_vars

\* cend() has returned the position 2 on an object of two entries
C24_Witness ==
    /\ last.op = "cend"
    /\ result.kind = "iterator"
    /\ result.it.pos_ = 2
    /\ MPI_Info_get_nkeys(store[objs[last.self].info_]) = 2

\* C25: a default-constructed object is not in the moved-from state: its handle is
\* not MPI_INFO_NULL and comes from an MPI_Info_create of its own; it is freeable and
\* it is empty: the handle holds no pair, and size(), empty(), begin() and end()
\* called on it right away give 0, true and two equal iterators.
C25_DefaultConstructed ==
    [][/\ last'.op = "info()" =>
            LET w == objs'[last'.self] IN
            /\ result' = Void
            /\ w.live
            /\ w.info_ # MPI_INFO_NULL
            /\ ~MovedFrom(w)
            /\ w.info_ \notin allocated
            /\ w.info_ \in allocated'
            /\ calls' = << <<"MPI_Info_create", w.info_>> >>
            /\ \A o \in AllObjs \ {last'.self} : objs'[o] = objs[o] /\ (objs[o].live => objs[o].info_ # w.info_)
            /\ w.is_freeable_
            /\ MPI_Info_get_nkeys(store'[w.info_]) = 0
       /\ Then({"info()"}, {"size"}) => result' = Size(0)
       /\ Then({"info()"}, {"empty"}) => result' = Bool(TRUE)
       /\ Then({"info()"}, BeginOps \cup EndOps) =>
            result'.it = iterator(objs[last.self].info_, 0)]_vars

\* an object was default-constructed next to an object that holds two entries
C25_Witness ==
    /\ last.op = "info()"
    /\ Valid(objs[last.self])
    /\ store[objs[last.self].info_] = <<>>
    /\ \E o \in Objs \ {last.self} :
        Valid(objs[o]) /\ MPI_Info_get_nkeys(store[objs[o].info_]) = 2

\* C30: on a valid object, keys() and values() called one right after the other both
\* have size() elements, keys() holds every key of the object exactly once, and
\* values()[i] is the value stored for keys()[i], for every index i.
C30_KeysAndValues ==
    [][LET s == store[objs[last'.self].info_]
           n == MPI_Info_get_nkeys(s) IN
       /\ (last'.op = "keys" /\ ~Failed(result')) =>
            /\ Len(result'.elements) = n
            /\ {result'.elements[i] : i \in 1..n} = KeySet(s)
            /\ \A i, j \in 1..n : result'.elements[i] = result'.elements[j] => i = j
       /\ (last'.op = "values" /\ ~Failed(result')) => Len(result'.elements) = n
       /\ Then({"keys"}, {"values"}) =>
            \A i \in 1..n : result'.elements[i] = ValueOf(s, result.elements[i])
       /\ Then({"values"}, {"keys"}) =>
            \A i \in 1..n : result.elements[i] = ValueOf(s, result'.elements[i])]_vars

\* values() has returned two different values
C30_Witness ==
    /\ last.op = "values"
    /\ result.kind = "vector"
    /\ Len(result.elements) = 2
    /\ result.elements[1] # result.elements[2]

\* ------------------------------------------------------------------------
\* Comparison of iterators
\* ------------------------------------------------------------------------
\* C26: ==, !=, <, >, <=, >= and the difference of two iterators that refer to two
\* different handles, at any positions and for any mix of const and non-const
\* iterators, fail the assertion and return no value.
C26_DifferentHandlesAbort ==
    [][(/\ last'.op \in RelationalOps
        /\ last'.self.info_ # MPI_INFO_NULL
        /\ last'.args[1].info_ # MPI_INFO_NULL
        /\ last'.self.info_ # last'.args[1].info_) =>
            /\ result' = AssertFailed
            /\ pc' = "aborted"
            /\ calls' = <<>>
            /\ objs' = objs
            /\ store' = store]_vars

\* the difference of a const and a non-const iterator of the handles of two objects
\* has failed
C26_Witness ==
    /\ last.op = "iterator -"
    /\ result = AssertFailed
    /\ last.args[2] # last.args[3]
    /\ \E o, o2 \in Objs :
        /\ o # o2
        /\ Valid(objs[o])
        /\ Valid(objs[o2])
        /\ last.self.info_ = objs[o].info_
        /\ last.args[1].info_ = objs[o2].info_
        /\ objs[o].info_ # objs[o2].info_

\* C27: ==, !=, <, >, <=, >= with an iterator that is bound to no handle fail the
\* assertion, whatever the other iterator is, also when it is bound to no handle
\* either.
C27_SingularAborts ==
    [][(/\ last'.op \in RelationalOps \ {"iterator -"}
        /\ (last'.self.info_ = MPI_INFO_NULL \/ last'.args[1].info_ = MPI_INFO_NULL)) =>
            result' = AssertFailed]_vars

\* C28: for two iterators on one handle at the positions p and q, == is p = q, != is
\* p # q, < is p < q, > is p > q, <= is p <= q and >= is p >= q, for every mix of
\* const and non-const iterators; on an object of two entries begin() + 1 == end() - 1.
C28_SameHandleComparesPositions ==
    [][/\ (/\ last'.op \in RelationalOps
           /\ last'.self.info_ # MPI_INFO_NULL
           /\ last'.self.info_ = last'.args[1].info_) =>
            LET p == last'.self.pos_
                q == last'.args[1].pos_ IN
            /\ pc' = "run"
            /\ last'.op = "iterator ==" => result' = Bool(p = q)
            /\ last'.op = "iterator !=" => result' = Bool(p # q)
            /\ last'.op = "iterator <" => result' = Bool(p < q)
            /\ last'.op = "iterator >" => result' = Bool(p > q)
            /\ last'.op = "iterator <=" => result' = Bool(p <= q)
            /\ last'.op = "iterator >=" => result' = Bool(p >= q)
            /\ last'.op = "iterator -" => result' = Difference(p - q)
       /\ (Then(BeginOps, EndOps) /\ MPI_Info_get_nkeys(store[objs[last.self].info_]) = 2) =>
            /\ iterator_eq(iterator_plus(result.it, 1), iterator_minus(result'.it, 1)) = Bool(TRUE)
            /\ iterator_eq(iterator_minus(result'.it, 1), iterator_plus(result.it, 1)) = Bool(TRUE)]_vars

\* a const iterator at position 1 was found <= a non-const one at position 1 of the
\* handle of an object of two entries
C28_Witness ==
    /\ last.op = "iterator <="
    /\ result = Bool(TRUE)
    /\ last.self.pos_ = 1
    /\ last.args[1].pos_ = 1
    /\ last.args[2]
    /\ ~last.args[3]
    /\ \E o \in Objs :
        /\ Valid(objs[o])
        /\ last.self.info_ = objs[o].info_
        /\ MPI_Info_get_nkeys(store[objs[o].info_]) = 2

\* ------------------------------------------------------------------------
\* Swapping
\* ------------------------------------------------------------------------
SwapOps == {"swap", "swap(info&,info&)", "std::swap"}
Operands(l) == {l.self, l.args[1]}

\* C29: swapping two objects (member swap, free swap, or the move-based std::swap)
\* gives each object the handle and the freeable flag the other had, leaves every
\* other object, the handles and their contents alone and calls none of
\* MPI_Info_create, MPI_Info_dup and MPI_Info_free; an operand in the moved-from
\* state hands that state (null handle, not freeable) to the other operand; and a
\* second swap of the same two objects puts both back as they were before the first.
C29_Swap ==
    [][/\ last'.op \in SwapOps =>
            LET a == last'.self
                b == last'.args[1]
            IN  /\ result' = Void
                /\ objs'[a] = objs[b]
                /\ objs'[b] = objs[a]
                /\ \A o \in AllObjs \ {a, b} : objs'[o] = objs[o]
                /\ allocated' = allocated
                /\ store' = store
                /\ \A i \in 1..Len(calls') :
                        calls'[i][1] \notin {"MPI_Info_create", "MPI_Info_dup", "MPI_Info_free"}
                /\ objs[a].info_ = MPI_INFO_NULL =>
                        objs'[b].info_ = MPI_INFO_NULL /\ ~objs'[b].is_freeable_
                /\ objs[b].info_ = MPI_INFO_NULL =>
                        objs'[a].info_ = MPI_INFO_NULL /\ ~objs'[a].is_freeable_
       /\ (last.op \in SwapOps /\ last'.op \in SwapOps /\ Operands(last') = Operands(last)) =>
            objs' = last.before
      ]_vars

\* a std::swap has given a moved-from object the freeable handle of the other
\* operand, which is now the moved-from one
C29_Witness ==
    /\ last.op = "std::swap"
    /\ last.self # last.args[1]
    /\ last.before[last.self].info_ = MPI_INFO_NULL
    /\ last.before[last.args[1]].is_freeable_
    /\ objs[last.self].is_freeable_
    /\ objs[last.self].info_ \in allocated
    /\ objs[last.args[1]] = Object(MPI_INFO_NULL, FALSE)

\* ------------------------------------------------------------------------
\* erase(position) and the iterator it returns
\* ------------------------------------------------------------------------
\* C31: an erase(pos) with pos in [0, size()) removes exactly the key that was at
\* position pos and returns an iterator at the same position, which now denotes the
\* key that was at position pos + 1, or is end() when the removed key was the last one.
C31_ErasePositionNext ==
    [][(last'.op = "erase(pos)" /\ ~Failed(result')) =>
            LET h == objs[last'.self].info_
                p == last'.args[1].pos_
                s == store[h]
                s2 == store'[h] IN
            /\ Entries(s2) = Entries(s) \ {s[p + 1]}
            /\ MPI_Info_get_nkeys(s2) = MPI_Info_get_nkeys(s) - 1
            /\ result' = Iterator(iterator(h, p))
            /\ IF p + 1 < MPI_Info_get_nkeys(s)
               THEN MPI_Info_get_nthkey(s2, p) = MPI_Info_get_nthkey(s, p + 1)
               ELSE iterator_eq(result'.it, iterator(h, MPI_Info_get_nkeys(s2))) = Bool(TRUE)]_vars

\* C31, amended: an erase(pos) with pos in [0, size()) removes exactly the key that was
\* at position pos and returns an iterator at the same position; that iterator is end()
\* exactly when the removed key was at the last position, and otherwise denotes one of
\* the surviving keys, the one the handle numbers pos after the delete.
C31_ErasePosition ==
    [][(last'.op = "erase(pos)" /\ ~Failed(result')) =>
            LET h == objs[last'.self].info_
                p == last'.args[1].pos_
                s == store[h]
                s2 == store'[h] IN
            /\ objs' = objs
            /\ p >= 0 /\ p < MPI_Info_get_nkeys(s)
            /\ Entries(s2) = Entries(s) \ {s[p + 1]}
            /\ MPI_Info_get_nkeys(s2) = MPI_Info_get_nkeys(s) - 1
            /\ \A g \in Handles \ {h} : store'[g] = store[g]
            /\ result' = Iterator(iterator(h, p))
            /\ (iterator_eq(result'.it, iterator(h, MPI_Info_get_nkeys(s2))) = Bool(TRUE))
                    <=> (p + 1 = MPI_Info_get_nkeys(s))
            /\ p + 1 < MPI_Info_get_nkeys(s) =>
                    /\ HasKey(s, MPI_Info_get_nthkey(s2, p))
                    /\ MPI_Info_get_nthkey(s2, p) # MPI_Info_get_nthkey(s, p)]_vars

\* erase(pos) has removed the key at position 0 of three and returned an iterator at
\* position 0, which denotes one of the two keys left
C31_Witness ==
    /\ last.op = "erase(pos)"
    /\ result.kind = "iterator"
    /\ result.it.pos_ = 0
    /\ last.args[1].pos_ = 0
    /\ MPI_Info_get_nkeys(store[objs[last.self].info_]) = 2

\* ------------------------------------------------------------------------
\* Iterator arithmetic
\* ------------------------------------------------------------------------
\* the amount by which op moves the iterator
Amount(op, args) ==
    CASE op \in {"++it", "it++"} -> 1
      [] op \in {"--it", "it--"} -> -1
      [] op \in {"it += inc", "it + inc", "inc + it"} -> args[1]
      [] op \in {"it -= inc", "it - inc"} -> -args[1]

\* C32: ++, --, +=, -=, + n and - n change the position of the iterator by exactly
\* the given amount and nothing else, and call nothing on the handle (objects,
\* handles and entries are unchanged); (it + n) - it = n and (it + n) - n = it for
\* every offset n of the difference type.
C32_ArithmeticExact ==
    [][last'.op \in StepOps \cup OffsetOps =>
            LET it == last'.self
                moved == IF last'.op \in {"it++", "it--"} THEN result'.self ELSE result'.it IN
            /\ moved.info_ = it.info_
            /\ moved.pos_ = it.pos_ + Amount(last'.op, last'.args)
            /\ calls' = <<>>
            /\ objs' = objs /\ allocated' = allocated /\ store' = store
            /\ last'.op = "it + inc" =>
                /\ iterator_difference(result'.it, it) = Difference(last'.args[1])
                /\ iterator_minus(result'.it, last'.args[1]) = it]_vars

\* ------------------------------------------------------------------------
\* Dereferencing
\* ------------------------------------------------------------------------
\* C33: dereferencing an iterator reads the key that the handle has at the iterator's
\* position when the call is made (with its value for a const iterator, a proxy of
\* the handle and that key otherwise), whatever was set or deleted since the
\* iterator was made; dereferencing, erase(pos) and extract(pos) at a position
\* outside [0, size()) of the handle at the time of the call, such as end() or the
\* position an erase of the last key returned, fail their assertion and change nothing.
C33_DereferenceAtCallTime ==
    [][/\ last'.op \in DerefOps =>
            LET it == last'.self
                s == store[it.info_]
                p == it.pos_ + last'.args[2] IN
            /\ objs' = objs /\ allocated' = allocated /\ store' = store
            /\ IF p >= 0 /\ p < MPI_Info_get_nkeys(s)
               THEN /\ result'.kind = "value_type"
                    /\ result'.first = MPI_Info_get_nthkey(s, p)
                    /\ result'.second = IF last'.args[1]
                                        THEN MPI_Info_get(s, MPI_Info_get_nthkey(s, p))
                                        ELSE string_proxy(it.info_, MPI_Info_get_nthkey(s, p))
               ELSE result' = AssertFailed
       /\ (/\ last'.op \in {"erase(pos)", "extract(pos)"}
           /\ last'.args[1].info_ = objs[last'.self].info_
           /\ ~(last'.args[1].pos_ >= 0
                /\ last'.args[1].pos_ < MPI_Info_get_nkeys(store[objs[last'.self].info_]))) =>
            /\ result' = AssertFailed
            /\ objs' = objs /\ allocated' = allocated /\ store' = store
       /\ (/\ last.op = "erase(pos)"
           /\ result.kind = "iterator"
           /\ result.it.pos_ = MPI_Info_get_nkeys(store[result.it.info_])
           /\ last'.op \in DerefOps
           /\ last'.self = result.it
           /\ last'.args[2] = 0) =>
            result' = AssertFailed
      ]_vars

\* an iterator at position 1 of the handle of an object that holds one key, which is
\* its end(), has been dereferenced, and the assertion failed
C33_Witness ==
    /\ last.op = "*it"
    /\ result = AssertFailed
    /\ last.self.pos_ = 1
    /\ MPI_Info_get_nkeys(store[last.self.info_]) = 1
    /\ \E o \in EraseObjs : objs[o].info_ = last.self.info_

\* ------------------------------------------------------------------------
\* Iterators across a move or a swap
\* ------------------------------------------------------------------------
MoveOps == {"info(info&&)", "operator=(info&&)"}
\* the objects whose handle the operation l hands to another object
Sources(l) == IF l.op \in MoveOps THEN {l.args[1]} ELSE {l.self, l.args[1]}
\* the other operand of the operation l
Other(l, src) == IF src = l.self THEN l.args[1] ELSE l.self

C35_SentinelsNeverFreeable ==
    /\ [](pc = "run" =>
            \A o \in AllObjs :
                (objs[o].live /\ objs[o].info_ \in {MPI_INFO_NULL, MPI_INFO_ENV})
                    => ~objs[o].is_freeable_)
    /\ [][(/\ last'.op = "info(MPI_Info,bool)"
           /\ last'.args[1] \in {MPI_INFO_NULL, MPI_INFO_ENV}
           /\ last'.args[2]) =>
                result' = AssertFailed]_vars

\* an object that was freeable has been move-assigned from a moved-from object, and
\* another object wraps MPI_INFO_ENV: neither is freeable
C35_Witness ==
    /\ pc = "run"
    /\ last.op = "operator=(info&&)"
    /\ last.before[last.self].is_freeable_
    /\ objs[last.self] = Object(MPI_INFO_NULL, FALSE)
    /\ \E o \in Objs : objs[o] = Object(MPI_INFO_ENV, FALSE)

\* ------------------------------------------------------------------------
\* Double free and leak
\* ------------------------------------------------------------------------
\* C36: in any sequence of constructions (default, copy, move, range, list),
\* assignments (copy, move, list; an object to itself too), swaps and destructions,
\* every MPI_Info_free is given a handle that is allocated, so that none is freed
\* twice, and that no live object other than the one being destroyed or assigned
\* to holds.
C36_NoDoubleFree ==
    [][\A i \in Frees(calls') :
            LET h == calls'[i][2] IN
            /\ h \in allocated
            /\ \A j \in Frees(calls') : j # i => calls'[j][2] # h
            /\ \A w \in AllObjs \ {last'.self} : objs[w].live => objs[w].info_ # h]_vars

\* an object has been copy-assigned from another one: its handle was freed, and the
\* two objects hold different handles
C36_Witness ==
    /\ last.op = "operator=(const info&)"
    /\ last.self # last.args[1]
    /\ calls[1] = <<"MPI_Info_free", last.before[last.self].info_>>
    /\ objs[last.self].info_ \in allocated
    /\ objs[last.args[1]].info_ \in allocated
    /\ objs[last.self].info_ # objs[last.args[1]].info_

\* C37: once every object of the program has been destroyed, every handle that
\* MPI_Info_create or MPI_Info_dup returned has been freed; and an object that was
\* assigned an initializer list is freeable.
C37_NoLeak ==
    /\ (\A o \in Objs : ~objs[o].live) => allocated = {}
    /\ (last.op = "operator=(ilist)" /\ ~Failed(result)) => objs[last.self].is_freeable_

\* ------------------------------------------------------------------------
\* Assignment from an object that wraps the handle of the object assigned to
\* ------------------------------------------------------------------------
\* the handle of every live object is MPI_INFO_NULL, MPI_INFO_ENV or allocated
NoneDangling(os, al) ==
    \A w \in AllObjs : os[w].live => os[w].info_ \in {MPI_INFO_NULL, MPI_INFO_ENV} \cup al

\* C38: when a freeable object A is copy- or move-assigned from another object B that
\* wraps A's own handle as not freeable, the assignment never passes to MPI_Info_dup
\* the handle it has freed before in the same call, no MPI call is rejected, and no
\* object holds a freed handle afterwards.
C38_NoUseAfterFree ==
    [][(/\ last'.op \in {"operator=(const info&)", "operator=(info&&)"}
        /\ last'.self # last'.args[1]
        /\ objs[last'.self].is_freeable_
        /\ ~objs[last'.args[1]].is_freeable_
        /\ objs[last'.self].info_ \in allocated
        /\ objs[last'.args[1]].info_ = objs[last'.self].info_
        /\ NoneDangling(objs, allocated)) =>
            /\ \A i \in 1..Len(calls') :
                calls'[i][1] = "MPI_Info_dup" =>
                    \A k \in 1..(i - 1) : calls'[k] # <<"MPI_Info_free", calls'[i][2]>>
            /\ result' # MPIError
            /\ NoneDangling(objs', allocated')]_vars

\* ------------------------------------------------------------------------
\* erase of an empty range
\* ------------------------------------------------------------------------
\* C39: erase(first, last) with first = last at any position in [0, size()] of a
\* valid object, end() and the only position of an empty object included, passes its
\* assertions, removes nothing and returns an iterator at that position.
C39_EraseEmptyRange ==
    [][(/\ last'.op = "erase(first,last)"
        /\ objs[last'.self].info_ # MPI_INFO_NULL
        /\ last'.args[1].info_ = objs[last'.self].info_
        /\ last'.args[2] = last'.args[1]
        /\ last'.args[1].pos_ \in 0..MPI_Info_get_nkeys(store[objs[last'.self].info_])) =>
            /\ ~Failed(result')
            /\ store' = store
            /\ objs' = objs
            /\ result' = Iterator(last'.args[1])]_vars

\* ------------------------------------------------------------------------
\* Operations that only read
\* ------------------------------------------------------------------------
ReadOnlyOps ==
    {"size", "empty", "max_size", "at const", "count", "contains", "keys", "values",
     "operator==", "operator!=", "get", "freeable"}
        \cup BeginOps \cup EndOps \cup RbeginOps \cup RendOps \cup FindOps \cup EqualRangeOps
Mutators == {"MPI_Info_set", "MPI_Info_delete", "MPI_Info_create", "MPI_Info_dup", "MPI_Info_free"}

\* C40: size, empty, max_size, begin and end in all their forms, at const, find,
\* count, contains, equal_range, keys, values, ==, !=, get, freeable and the
\* dereference of a const_iterator leave the handle and the freeable flag of every
\* object and the entries of every handle as they were, and call none of
\* MPI_Info_set, MPI_Info_delete, MPI_Info_create, MPI_Info_dup and MPI_Info_free.
C40_ReadOnly ==
    [][(\/ last'.op \in ReadOnlyOps
        \/ (last'.op \in DerefOps /\ last'.args[1])) =>
            /\ objs' = objs
            /\ allocated' = allocated
            /\ store' = store
            /\ \A i \in 1..Len(calls') : calls'[i][1] \notin Mutators]_vars

\* at const has been called with a key that the object, which holds another key,
\* does not have
C40_Witness ==
    /\ last.op = "at const"
    /\ result = OutOfRange
    /\ MPI_Info_get_nkeys(store[objs[last.self].info_]) = 1
    /\ ~HasKey(store[objs[last.self].info_], last.args[1])

====
